---- MODULE Spec2Model ----
(***************************************************************************)
(* A model of manage_keys.py: the roster/remote-key reconciliation tool.   *)
(* The remote service, the roster file, the target ("limits") file and the *)
(* sqlite store are the state; every CLI command is an operation.  A       *)
(* command that issues a batch of remote calls is split at the remote      *)
(* calls, because the outcome of each call is an input of the run and the  *)
(* process can be killed between two calls.                                *)
(***************************************************************************)
EXTENDS Integers, Sequences, FiniteSets, TLC

(***************************************************************************)
(* Python values.  A value that may be None, a number or a string is a     *)
(* tagged record, so that Python's == between values of different types    *)
(* (None != 0, "" != None) is plain equality here.                         *)
(***************************************************************************)
None == [t |-> "None"]
Num(n) == [t |-> "num", n |-> n]
Str(s) == [t |-> "str", s |-> s]
ValueError == [t |-> "ValueError"]

\* Python truthiness of a limit value: None, 0, 0.0 and "" are falsy.
Truthy(v) ==
    CASE v.t = "None" -> FALSE
      [] v.t = "num" -> v.n # 0
      [] v.t = "str" -> v.s # ""
      [] OTHER -> TRUE

\* The amounts the model draws limits and budgets from.
Amounts == {0, 5, 7}

\* float(text) on the decimal texts of the model; any other text raises.
float(text) ==
    CASE text \in {"0", "0.0"} -> Num(0)
      [] text \in {"5", "5.0"} -> Num(5)
      [] text \in {"7", "7.0"} -> Num(7)
      [] OTHER -> ValueError

\* str(x) of a float, as csv.DictWriter writes a float cell.
FloatRepr(n) ==
    CASE n = 0 -> "0.0"
      [] n = 5 -> "5.0"
      [] n = 7 -> "7.0"

\* str(x) of a number decoded from the service's JSON (an integral amount).
JsonRepr(n) ==
    CASE n = 0 -> "0"
      [] n = 5 -> "5"
      [] n = 7 -> "7"

\* str(v) of a limit value, as update() stores it in the changelog.
PyStr(v) ==
    CASE v.t = "None" -> "None"
      [] v.t = "num" -> FloatRepr(v.n)
      [] v.t = "str" -> v.s

\* str(b) of a bool.
BoolStr(b) == IF b THEN "True" ELSE "False"

\* text.lower() on the enumeration cells of the model.
lower(text) ==
    CASE text = "True" -> "true"
      [] text = "False" -> "false"
      [] text = "Weekly" -> "weekly"
      [] OTHER -> text

(***************************************************************************)
(* Names and identifiers are sequences of one-character strings.           *)
(***************************************************************************)
Digits == {"0", "1", "2", "3", "4", "5", "6", "7", "8", "9"}
Letters == {"A", "B", "C", "D", "K"}
Whitespace == {" "}
IsDigit(c) == c \in Digits
\* \w of the re module: letters, digits and the underscore.
IsWord(c) == c \in Digits \cup Letters \cup {"_"}

RECURSIVE lstrip(_)
lstrip(s) == IF s # <<>> /\ Head(s) \in Whitespace THEN lstrip(Tail(s)) ELSE s
RECURSIVE rstrip(_)
rstrip(s) ==
    IF s # <<>> /\ s[Len(s)] \in Whitespace
    THEN rstrip(SubSeq(s, 1, Len(s) - 1))
    ELSE s
strip(s) == rstrip(lstrip(s))

SetMax(S) == CHOOSE x \in S : \A y \in S : y <= x

\* datetime.now().strftime("%Y%m%d"): the day of the runs of the model.
Today == <<"2", "0", "2", "6", "0", "2", "2", "7">>

display_name(info) == strip(info.first_name \o <<" ">> \o info.last_name)

\* build_key_name with an explicit date.
BuildKeyName(info, date) == date \o <<"_">> \o display_name(info) \o <<"_">> \o info.mq_id

\* build_key_name with date=None: the date is today's.
build_key_name(info) == BuildKeyName(info, Today)

\* ^(\d{8})_ : the prefix both patterns of parse_key_name share.
HasDatePrefix(s) ==
    /\ Len(s) >= 9
    /\ \A i \in 1..8 : IsDigit(s[i])
    /\ s[9] = "_"

\* The positions p of an underscore at which ^(\d{8})_(.+)_(\w+)$ can split
\* the label: (.+) is s[10..p-1], (\w+) is s[p+1..].
SplitPoints(s) ==
    {p \in 11..(Len(s) - 1) :
        /\ s[p] = "_"
        /\ \A i \in (p + 1)..Len(s) : IsWord(s[i])}

\* What the patterns give for a label with or without date prefix and its
\* split points: (date, name, mq_id), the greedy (.+) taking the last
\* split point.
ParsedWith(key_name, dated, points) ==
    IF dated /\ points # {}
    THEN [date |-> Str(SubSeq(key_name, 1, 8)),
          name |-> SubSeq(key_name, 10, SetMax(points) - 1),
          mq_id |-> Str(SubSeq(key_name, SetMax(points) + 1, Len(key_name)))]
    ELSE IF dated /\ Len(key_name) >= 10
    THEN [date |-> Str(SubSeq(key_name, 1, 8)),
          name |-> SubSeq(key_name, 10, Len(key_name)),
          mq_id |-> None]
    ELSE [date |-> None, name |-> key_name, mq_id |-> None]

parse_key_name(key_name) ==
    ParsedWith(key_name, HasDatePrefix(key_name), SplitPoints(key_name))

(***************************************************************************)
(* The roster.  A roster file is a sequence of rows; the loaded roster is  *)
(* a Python dict, kept as a sequence of [email, info] in insertion order   *)
(* with one entry per email.                                               *)
(***************************************************************************)
VALID_LIMIT_RESETS == {"daily", "weekly", "monthly"}
PLACEHOLDER_DOMAIN == "@FIXME.mq.edu.au"

\* PLACEHOLDER_DOMAIN in email, on the e-mail addresses of the model.
IsPlaceholder(email) == email \in {"z" \o PLACEHOLDER_DOMAIN}

\* The order of sorted() on the e-mail addresses of the model.
EmailRank(email) ==
    CASE email = "a@mq" -> 1
      [] email = "b@mq" -> 2
      [] OTHER -> 3

NoError == [t |-> "ok"]

\* row.get('email', '?'): a file without email column gives rows without
\* the field.
RowEmail(row) == IF "email" \in DOMAIN row THEN row.email ELSE "?"

\* A validation that tests the fields without trimming them.
ValidateWithoutStrip(row, line_number) ==
    CASE row.first_name = <<>> ->
            [t |-> "ClickException", field |-> "first_name",
             line |-> line_number, email |-> RowEmail(row)]
      [] row.last_name = <<>> ->
            [t |-> "ClickException", field |-> "last_name",
             line |-> line_number, email |-> RowEmail(row)]
      [] row.mq_id = <<>> ->
            [t |-> "ClickException", field |-> "mq_id",
             line |-> line_number, email |-> RowEmail(row)]
      [] OTHER -> [t |-> "ok"]

\* The first required field that is empty after trimming, as the
\* ClickException names it, or NoError.
validate_roster_row(row, line_number) ==
    CASE strip(row.first_name) = <<>> ->
            [t |-> "ClickException", field |-> "first_name",
             line |-> line_number, email |-> RowEmail(row)]
      [] strip(row.last_name) = <<>> ->
            [t |-> "ClickException", field |-> "last_name",
             line |-> line_number, email |-> RowEmail(row)]
      [] strip(row.mq_id) = <<>> ->
            [t |-> "ClickException", field |-> "mq_id",
             line |-> line_number, email |-> RowEmail(row)]
      [] OTHER -> NoError

\* d[k] = v on a dict kept as a sequence of [email, info].
DictSet(d, email, info) ==
    IF \E i \in DOMAIN d : d[i].email = email
    THEN [i \in DOMAIN d |->
            IF d[i].email = email THEN [email |-> email, info |-> info] ELSE d[i]]
    ELSE Append(d, [email |-> email, info |-> info])

\* row.get("limit_reset", "").strip().lower() or None
RowLimitReset(row) ==
    IF lower(row.limit_reset) = "" THEN None ELSE Str(lower(row.limit_reset))

KeyError == [t |-> "KeyError"]

\* One row of load_roster's loop: the error it raises, or NoError.  The
\* message of an invalid limit_reset and the key of the new entry read
\* row["email"].
RowError(row, line_number) ==
    IF validate_roster_row(row, line_number) # NoError
    THEN validate_roster_row(row, line_number)
    ELSE IF RowLimitReset(row) # None /\ RowLimitReset(row).s \notin VALID_LIMIT_RESETS
    THEN IF "email" \in DOMAIN row
         THEN [t |-> "ClickException", field |-> "limit_reset",
               line |-> line_number, email |-> row.email]
         ELSE KeyError
    ELSE IF row.budget # "" /\ float(row.budget) = ValueError
    THEN ValueError
    ELSE IF "email" \notin DOMAIN row
    THEN KeyError
    ELSE NoError

RowInfo(row) ==
    [first_name |-> strip(row.first_name),
     last_name |-> strip(row.last_name),
     mq_id |-> strip(row.mq_id),
     budget |-> IF row.budget # "" THEN float(row.budget) ELSE None,
     limit_reset |-> RowLimitReset(row)]

RECURSIVE LoadRows(_, _, _)
LoadRows(rows, i, roster) ==
    IF i > Len(rows)
    THEN [err |-> NoError, roster |-> roster]
    ELSE IF RowError(rows[i], i + 1) # NoError
    THEN [err |-> RowError(rows[i], i + 1), roster |-> <<>>]
    ELSE LoadRows(rows, i + 1, DictSet(roster, rows[i].email, RowInfo(rows[i])))

\* [err, roster]; the header is line 1, so row i of the data is line i + 1.
load_roster(rows) == LoadRows(rows, 1, <<>>)

\* The row save_roster writes for an entry: a budget that is falsy is
\* written as an empty cell, a limit_reset that is None too.
SavedRosterRow(entry) ==
    [first_name |-> entry.info.first_name,
     last_name |-> entry.info.last_name,
     email |-> entry.email,
     mq_id |-> entry.info.mq_id,
     budget |-> IF Truthy(entry.info.budget)
                THEN FloatRepr(entry.info.budget.n) ELSE "",
     limit_reset |-> IF entry.info.limit_reset # None
                        /\ entry.info.limit_reset.s # ""
                     THEN entry.info.limit_reset.s ELSE ""]

(***************************************************************************)
(* Matching remote keys to the roster by the identifier in the label.      *)
(***************************************************************************)
\* mq_id_lookup: a later roster entry with the same mq_id replaces an
\* earlier one.
HasLookup(roster, mq_id) ==
    \E i \in DOMAIN roster : roster[i].info.mq_id # <<>> /\ roster[i].info.mq_id = mq_id

mq_id_lookup(roster, mq_id) ==
    roster[SetMax({i \in DOMAIN roster : roster[i].info.mq_id = mq_id})]

\* extracted_mq_id and extracted_mq_id in mq_id_lookup
InLookup(extracted_mq_id, roster) ==
    /\ extracted_mq_id # None
    /\ HasLookup(roster, extracted_mq_id.s)

IsMatched(key, roster) == InLookup(parse_key_name(key.name).mq_id, roster)

\* (key, email, info) for the entry the lookup gave.
MatchedPair(key, entry) == [key |-> key, email |-> entry.email, info |-> entry.info]

\* One turn of the loop of map_keys_to_roster: what it appends to matched.
MatchedWith(key, roster, extracted_mq_id) ==
    IF InLookup(extracted_mq_id, roster)
    THEN <<MatchedPair(key, mq_id_lookup(roster, extracted_mq_id.s))>>
    ELSE <<>>

\* A matching by display name instead of by mq_id.
RECURSIVE MatchedFromByName(_, _, _)
MatchedFromByName(keys, roster, i) ==
    IF i > Len(keys)
    THEN <<>>
    ELSE IF \E r \in DOMAIN roster :
                display_name(roster[r].info) = parse_key_name(keys[i].name).name
    THEN LET e == roster[SetMax({r \in DOMAIN roster :
                    display_name(roster[r].info) = parse_key_name(keys[i].name).name})]
         IN  <<[key |-> keys[i], email |-> e.email, info |-> e.info]>>
                \o MatchedFromByName(keys, roster, i + 1)
    ELSE MatchedFromByName(keys, roster, i + 1)

RECURSIVE MatchedFrom(_, _, _)
MatchedFrom(keys, roster, i) ==
    IF i > Len(keys)
    THEN <<>>
    ELSE MatchedWith(keys[i], roster, parse_key_name(keys[i].name).mq_id)
            \o MatchedFrom(keys, roster, i + 1)

\* A loop whose else branch was lost: every key is appended to orphaned.
MapKeysWithoutElse(openrouter_keys, roster) ==
    [matched |-> MatchedFrom(openrouter_keys, roster, 1),
     orphaned |-> openrouter_keys]

\* [matched, orphaned], each in the order of the listing.
map_keys_to_roster(openrouter_keys, roster) ==
    [matched |-> MatchedFrom(openrouter_keys, roster, 1),
     orphaned |-> SelectSeq(openrouter_keys, LAMBDA k : ~IsMatched(k, roster))]

RECURSIVE InsertByEmail(_, _)
InsertByEmail(sorted, m) ==
    IF sorted = <<>>
    THEN <<m>>
    ELSE IF EmailRank(m.email) < EmailRank(Head(sorted).email)
    THEN <<m>> \o sorted
    ELSE <<Head(sorted)>> \o InsertByEmail(Tail(sorted), m)

RECURSIVE SortByEmail(_)
\* sorted(matched, key=lambda x: x[1]): stable.
SortByEmail(matched) ==
    IF matched = <<>>
    THEN <<>>
    ELSE InsertByEmail(SortByEmail(SubSeq(matched, 1, Len(matched) - 1)),
                       matched[Len(matched)])

\* The rows save_roster writes: sorted(roster_dict.items()), a row each.
save_roster(roster_dict) ==
    [i \in DOMAIN roster_dict |-> SavedRosterRow(SortByEmail(roster_dict)[i])]

(***************************************************************************)
(* The target file (limits.csv).  A row keeps the columns the tool reads   *)
(* back or compares: email, target_limit, actual_limit, target_disabled,   *)
(* actual_disabled and hash.  The file is [exists, rows].                  *)
(***************************************************************************)
HasTargets(limits, email) ==
    limits.exists /\ \E i \in DOMAIN limits.rows : limits.rows[i].email = email

\* load_limits: a later row of the same email replaces an earlier one.
load_limits(limits, email) ==
    limits.rows[SetMax({i \in DOMAIN limits.rows : limits.rows[i].email = email})]

\* existing_limits.get(email): the row of the email, or a row without
\* targets when the file has none.
NoTargets == [target_limit |-> "", target_disabled |-> ""]
ExistingTargets(limits, email) ==
    IF HasTargets(limits, email) THEN load_limits(limits, email) ELSE NoTargets

\* The target_limit save_limits resolves for a matched key with the
\* existing row of its email: the existing target when the cell is not
\* empty, else the key's actual limit.
SavedTargetLimit(m, existing) ==
    IF existing.target_limit # ""
    THEN IF existing.target_limit = "unlimited"
         THEN None
         ELSE float(existing.target_limit)
    ELSE m.key.limit

SavedTargetDisabled(m, existing) ==
    IF existing.target_disabled # ""
    THEN lower(existing.target_disabled) = "true"
    ELSE m.key.disabled

\* The cell csv.DictWriter writes for "value if value else 'unlimited'": a
\* float read back from the file prints as a float, a limit taken from the
\* listing prints as the JSON number it was decoded from.
LimitCell(v, fromFile) ==
    IF Truthy(v)
    THEN IF fromFile THEN FloatRepr(v.n) ELSE JsonRepr(v.n)
    ELSE "unlimited"

\* The row written for a matched key with the existing row of its email.
SavedRow(m, existing) ==
    [email |-> m.email,
     target_limit |-> LimitCell(SavedTargetLimit(m, existing), existing.target_limit # ""),
     actual_limit |-> LimitCell(m.key.limit, FALSE),
     target_disabled |-> lower(BoolStr(SavedTargetDisabled(m, existing))),
     actual_disabled |-> lower(BoolStr(m.key.disabled)),
     hash |-> m.key.hash]

\* One turn of the loop of save_limits on the rows written so far.
RECURSIVE SaveRows(_, _, _, _)
SaveRow(sorted, limits, i, rows, existing) ==
    IF SavedTargetLimit(sorted[i], existing) = ValueError
    THEN [err |-> ValueError, limits |-> [exists |-> TRUE, rows |-> rows]]
    ELSE SaveRows(sorted, limits, i + 1, Append(rows, SavedRow(sorted[i], existing)))

SaveRows(sorted, limits, i, rows) ==
    IF i > Len(sorted)
    THEN [err |-> NoError, limits |-> [exists |-> TRUE, rows |-> rows]]
    ELSE SaveRow(sorted, limits, i, rows, ExistingTargets(limits, sorted[i].email))

\* [err, limits]: the file as save_limits leaves it.  The file is opened
\* for writing before the loop, so a float() that raises leaves the rows
\* written before it.
save_limits(openrouter_keys, roster, limits) ==
    SaveRows(SortByEmail(map_keys_to_roster(openrouter_keys, roster).matched),
             limits, 1, <<>>)

(***************************************************************************)
(* The diff of update(): target file rows against the matched keys.        *)
(***************************************************************************)
Bool(b) == [t |-> "bool", b |-> b]

InEmailToKey(matched, email) == \E i \in DOMAIN matched : matched[i].email = email

\* email_to_key: a later matched key of the same email replaces an earlier.
email_to_key(matched, email) ==
    matched[SetMax({i \in DOMAIN matched : matched[i].email = email})].key

\* target_limit of a row after the conversions of update(): None for
\* "unlimited", float(cell) for a non-empty cell, the empty cell itself
\* otherwise.
RowTargetLimit(row) ==
    IF row.target_limit = "unlimited"
    THEN None
    ELSE IF row.target_limit # ""
    THEN float(row.target_limit)
    ELSE Str(row.target_limit)

RowTargetDisabled(row) == lower(row.target_disabled) = "true"

\* A comparison in which a limit of 0 counts as no limit.
LimitChangeFalsyEqual(row, key) ==
    IF Truthy(RowTargetLimit(row)) \/ Truthy(key.limit)
    THEN IF RowTargetLimit(row) # key.limit
         THEN <<[email |-> row.email, key_hash |-> key.hash, change_type |-> "limit",
                 old_value |-> key.limit, new_value |-> RowTargetLimit(row)]>>
         ELSE <<>>
    ELSE <<>>

LimitChange(row, key) ==
    IF RowTargetLimit(row) # key.limit
    THEN <<[email |-> row.email, key_hash |-> key.hash, change_type |-> "limit",
            old_value |-> key.limit, new_value |-> RowTargetLimit(row)]>>
    ELSE <<>>

DisabledChange(row, key) ==
    IF RowTargetDisabled(row) # key.disabled
    THEN <<[email |-> row.email, key_hash |-> key.hash, change_type |-> "disabled",
            old_value |-> Bool(key.disabled),
            new_value |-> Bool(RowTargetDisabled(row))]>>
    ELSE <<>>

\* A loop that ends at the first row of an unknown email (break for
\* continue).
RECURSIVE ChangesFromStopsAtUnknown(_, _, _, _)
ChangesFromStopsAtUnknown(rows, matched, i, changes) ==
    IF i > Len(rows)
    THEN [err |-> NoError, changes |-> changes]
    ELSE IF ~InEmailToKey(matched, rows[i].email)
    THEN [err |-> NoError, changes |-> changes]
    ELSE IF RowTargetLimit(rows[i]) = ValueError
    THEN [err |-> ValueError, changes |-> <<>>]
    ELSE ChangesFromStopsAtUnknown(rows, matched, i + 1,
            changes \o LimitChange(rows[i], email_to_key(matched, rows[i].email))
                    \o DisabledChange(rows[i], email_to_key(matched, rows[i].email)))

\* A loop that compares the flag of a row before its limit.
RECURSIVE ChangesFromDisabledFirst(_, _, _, _)
ChangesFromDisabledFirst(rows, matched, i, changes) ==
    IF i > Len(rows)
    THEN [err |-> NoError, changes |-> changes]
    ELSE IF ~InEmailToKey(matched, rows[i].email)
    THEN ChangesFromDisabledFirst(rows, matched, i + 1, changes)
    ELSE IF RowTargetLimit(rows[i]) = ValueError
    THEN [err |-> ValueError, changes |-> <<>>]
    ELSE ChangesFromDisabledFirst(rows, matched, i + 1,
            changes \o DisabledChange(rows[i], email_to_key(matched, rows[i].email))
                    \o LimitChange(rows[i], email_to_key(matched, rows[i].email)))

RECURSIVE ChangesFrom(_, _, _, _)
ChangesFrom(rows, matched, i, changes) ==
    IF i > Len(rows)
    THEN [err |-> NoError, changes |-> changes]
    ELSE IF ~InEmailToKey(matched, rows[i].email)
    THEN ChangesFrom(rows, matched, i + 1, changes)
    ELSE IF RowTargetLimit(rows[i]) = ValueError
    THEN [err |-> ValueError, changes |-> <<>>]
    ELSE ChangesFrom(rows, matched, i + 1,
                     changes \o LimitChange(rows[i], email_to_key(matched, rows[i].email))
                             \o DisabledChange(rows[i], email_to_key(matched, rows[i].email)))

\* [err, changes]: changes_to_apply, in the order of the rows of the file.
ComputeChanges(rows, matched) == ChangesFrom(rows, matched, 1, <<>>)

(***************************************************************************)
(* The sqlite store (keys.db): its layout and the committed rows of its    *)
(* tables.  layout is "absent" (no file), "empty" (a file without tables), *)
(* "legacy" (the four tables of schema 1, no schema_version table), "v1"   *)
(* (a schema_version row below SCHEMA_VERSION) or "current".               *)
(***************************************************************************)
SCHEMA_VERSION == 2

Layouts == {"absent", "empty", "legacy", "v1", "current"}

\* Whether the student, key, usage and changelog tables exist.
HasTables(store) == store.layout \in {"legacy", "v1", "current"}

\* A store of the given layout whose tables, if any, hold no row.
NewStore(layout) ==
    [layout |-> layout, student |-> {}, key |-> {}, usage |-> <<>>, changelog |-> <<>>]

OperationalError == [t |-> "OperationalError"]
IntegrityError == [t |-> "IntegrityError"]

\* mq_id is UNIQUE in student: another email already holds this mq_id.
UniqueViolation(student, email, info) ==
    \E r \in student : r.email # email /\ r.mq_id = info.mq_id

\* INSERT OR REPLACE INTO student: the row of the email is deleted and
\* inserted anew.
UpsertStudentReplace(student, email, info, timestamp) ==
    {r \in student : r.email # email}
        \cup {[email |-> email, first_name |-> info.first_name,
                last_name |-> info.last_name, mq_id |-> info.mq_id,
                created_at |-> timestamp]}

\* INSERT ... ON CONFLICT(email) DO UPDATE SET first_name, last_name, mq_id
UpsertStudent(student, email, info, timestamp) ==
    IF \E r \in student : r.email = email
    THEN {IF r.email = email
          THEN [r EXCEPT !.first_name = info.first_name,
                         !.last_name = info.last_name,
                         !.mq_id = info.mq_id]
          ELSE r : r \in student}
    ELSE student \cup {[email |-> email, first_name |-> info.first_name,
                        last_name |-> info.last_name, mq_id |-> info.mq_id,
                        created_at |-> timestamp]}

\* INSERT OR REPLACE INTO key
ReplaceKey(keyTable, key, email) ==
    {r \in keyTable : r.key_hash # key.hash}
        \cup {[key_hash |-> key.hash, email |-> email, key_name |-> key.name,
               credit_limit |-> key.limit, disabled |-> key.disabled]}

RECURSIVE RefreshFrom(_, _, _, _)
RefreshFrom(store, matched, i, timestamp) ==
    IF i > Len(matched)
    THEN [err |-> NoError, store |-> store]
    ELSE IF ~HasTables(store)
    THEN [err |-> OperationalError, store |-> store]
    ELSE IF UniqueViolation(store.student, matched[i].email, matched[i].info)
    THEN [err |-> IntegrityError, store |-> store]
    ELSE RefreshFrom(
            [store EXCEPT
                !.student = UpsertStudent(@, matched[i].email, matched[i].info, timestamp),
                !.key = ReplaceKey(@, matched[i].key, matched[i].email),
                !.usage = Append(@, [key_hash |-> matched[i].key.hash,
                                     usage |-> matched[i].key.usage,
                                     checked_at |-> timestamp])],
            matched, i + 1, timestamp)

\* A refresh over every key of the listing: an orphaned key is stored
\* under the identifier of its label and no email.
UpdateDatabaseAllKeys(store, openrouter_keys, roster, timestamp) ==
    RefreshFrom(store,
                [i \in DOMAIN openrouter_keys |->
                    IF IsMatched(openrouter_keys[i], roster)
                    THEN MatchedFrom(<<openrouter_keys[i]>>, roster, 1)[1]
                    ELSE [key |-> openrouter_keys[i], email |-> "?",
                          info |-> [first_name |-> <<>>, last_name |-> <<>>,
                                    mq_id |-> <<"?">>]]],
                1, timestamp)

\* [err, store]: the working copy of the connection after the inserts of
\* update_database; the caller's commit makes it the store.
update_database(store, openrouter_keys, roster, timestamp) ==
    RefreshFrom(store, map_keys_to_roster(openrouter_keys, roster).matched, 1, timestamp)

\* INSERT INTO changelog on the rows not yet committed.
InsertChangelog(rows, entry) == Append(rows, entry)

\* conn.commit(): the inserted changelog rows become part of the store.
CommitDropsRows(store, rows) == store
CommitReplaces(store, rows) == [store EXCEPT !.changelog = rows]
Commit(store, rows) == [store EXCEPT !.changelog = @ \o rows]

\* The changelog row update() inserts for an applied change.
UpdateEntry(change, timestamp) ==
    [key_hash |-> change.key_hash,
     action |-> "update_" \o change.change_type,
     old_value |-> IF change.change_type = "limit"
                   THEN Str(PyStr(change.old_value))
                   ELSE Str(BoolStr(change.old_value.b)),
     new_value |-> IF change.change_type = "limit"
                   THEN Str(PyStr(change.new_value))
                   ELSE Str(BoolStr(change.new_value.b)),
     changed_at |-> timestamp]

\* The changelog row provision() inserts for a created key: old_value NULL.
ProvisionedEntry(key_info, timestamp) ==
    [key_hash |-> key_info.hash,
     action |-> "provisioned",
     old_value |-> None,
     new_value |-> Str(<<"limit=", PyStr(key_info.limit), ",reset=",
                        IF key_info.limit_reset = None
                        THEN "None" ELSE key_info.limit_reset.s>>),
     changed_at |-> timestamp]

(***************************************************************************)
(* The remote service: the keys of its listing, in creation order.  An     *)
(* update changes exactly the fields its payload carries; a field that is  *)
(* not in the payload is Absent.                                           *)
(***************************************************************************)
Absent == [t |-> "absent"]

\* The payload update_openrouter_key builds: a limit or disabled that is
\* None is left out.
UpdatePayload(limit, disabled) ==
    [limit |-> IF limit # None THEN limit ELSE Absent,
     disabled |-> IF disabled # None THEN disabled ELSE Absent]

\* The payload of the call update() issues for a change.
ChangePayload(change) ==
    IF change.change_type = "limit"
    THEN UpdatePayload(change.new_value, None)
    ELSE UpdatePayload(None, change.new_value)

\* The service accepts a limit that is a number.
PayloadAccepted(payload) == payload.limit = Absent \/ payload.limit.t = "num"

\* PATCH /keys/{hash}: the listing after the service applied the payload.
Patched(keys, key_hash, payload) ==
    [i \in DOMAIN keys |->
        IF keys[i].hash = key_hash
        THEN [keys[i] EXCEPT
                !.limit = IF payload.limit # Absent THEN payload.limit ELSE @,
                !.disabled = IF payload.disabled # Absent THEN payload.disabled.b ELSE @]
        ELSE keys[i]]

\* POST /keys: the key the service creates; its hash is new.
CreatedKey(keys, name, limit, limit_reset) ==
    [hash |-> Len(keys) + 1, name |-> name,
     limit |-> limit, disabled |-> FALSE, usage |-> 0,
     limit_reset |-> limit_reset]

(***************************************************************************)
(* The state.                                                              *)
(*   remote      the keys of the service's listing                         *)
(*   rosterFile  the rows of roster.csv                                    *)
(*   limitsFile  limits.csv, [exists, rows]                                *)
(*   store       keys.db as committed                                      *)
(*   txn         changelog rows inserted on the open connection of         *)
(*               update() and not yet committed                            *)
(*   exports     the snapshot and api_keys files written so far            *)
(*   pc          "idle" between invocations, "applying" inside the loop of *)
(*               update(), "creating" inside the loop of provision()       *)
(*   inv         the current (or, when idle, the last) invocation: its     *)
(*               command and options, exit status, the remote calls it     *)
(*               issued, its locals, and what it found when it started     *)
(*   prev        the invocation before it                                  *)
(*   runs        the number of invocations started; the clock of the       *)
(*               timestamps                                                *)
(*   call        a direct call of one of the module's functions (as the    *)
(*               unit tests make them): the function and its arguments     *)
(*   result      what that call returned, NoResult before it returns       *)
(***************************************************************************)
VARIABLES remote, rosterFile, limitsFile, store, txn, exports, pc, inv, prev, runs,
          call, result

\* The state of the commands, and the state of a direct call.
world == <<remote, rosterFile, limitsFile, store, txn, exports, pc, inv, prev, runs>>
direct == <<call, result>>

vars == <<remote, rosterFile, limitsFile, store, txn, exports, pc, inv, prev, runs,
          call, result>>

NoCall == [fn |-> "none"]
NoResult == [t |-> "NoResult"]

\* The number of invocations of a behaviour.
MaxRuns == 2

StudentA ==
    [first_name |-> <<"A">>, last_name |-> <<"K">>, email |-> "a@mq",
     mq_id |-> <<"1">>, budget |-> "5", limit_reset |-> "Weekly"]

StudentB ==
    [first_name |-> <<"B">>, last_name |-> <<"K">>, email |-> "b@mq",
     mq_id |-> <<"2">>, budget |-> "7", limit_reset |-> ""]

GoodRoster == <<StudentA, StudentB>>

\* Rosters load_roster rejects: a blank required field, an unknown cadence.
BadRosters ==
    {<<StudentA, [StudentB EXCEPT !.first_name = <<" ">>]>>,
     <<[StudentA EXCEPT !.limit_reset = "yearly"], StudentB>>}

Rosters == {GoodRoster} \cup BadRosters

\* A listing with one key per student of GoodRoster.
RemoteBoth(limitA, disabledA, limitB, disabledB) ==
    <<[hash |-> 1, name |-> build_key_name(RowInfo(StudentA)),
       limit |-> limitA, disabled |-> disabledA, usage |-> 0, limit_reset |-> None],
      [hash |-> 2, name |-> build_key_name(RowInfo(StudentB)),
       limit |-> limitB, disabled |-> disabledB, usage |-> 0, limit_reset |-> None]>>

Limits == {None} \cup {Num(n) : n \in {0, 5}}

\* A target file as a refresh wrote it for the listing and an operator
\* edited it: the target cells are the operator's.
TargetFile(keys, tlA, tdA, tlB, tdB) ==
    [exists |-> TRUE,
     rows |-> <<[email |-> "a@mq", target_limit |-> tlA,
                 actual_limit |-> LimitCell(keys[1].limit, FALSE),
                 target_disabled |-> tdA,
                 actual_disabled |-> lower(BoolStr(keys[1].disabled)),
                 hash |-> keys[1].hash],
                [email |-> "b@mq", target_limit |-> tlB,
                 actual_limit |-> LimitCell(keys[2].limit, FALSE),
                 target_disabled |-> tdB,
                 actual_disabled |-> lower(BoolStr(keys[2].disabled)),
                 hash |-> keys[2].hash]>>]

NoFile == [exists |-> FALSE, rows |-> <<>>]

NoInvocation ==
    [cmd |-> "none", dry_run |-> FALSE, exitCode |-> 0, calls |-> <<>>,
     changes_to_apply |-> <<>>, idx |-> 0, to_provision |-> <<>>,
     created_keys |-> <<>>, timestamp |-> 0,
     start |-> [changelog |-> 0, usage |-> 0, remote |-> <<>>, limits |-> NoFile,
                layout |-> "absent"]]

\* What the next invocation remembers of the one that just ended.
Summary ==
    [cmd |-> inv.cmd, dry_run |-> inv.dry_run, exitCode |-> inv.exitCode,
     changes |-> Len(inv.changes_to_apply), start |-> inv.start]

\* A new invocation of a command, before it did anything.
NewInvocation(command, dry, timestamp) ==
    [cmd |-> command, dry_run |-> dry, exitCode |-> 0, calls |-> <<>>,
     changes_to_apply |-> <<>>, idx |-> 0, to_provision |-> <<>>,
     created_keys |-> <<>>, timestamp |-> timestamp,
     start |-> [changelog |-> Len(store.changelog), usage |-> Len(store.usage),
                remote |-> remote, limits |-> limitsFile, layout |-> store.layout]]

\* Nothing has been provisioned: no key, no target file.
InitFresh ==
    /\ remote = <<>>
    /\ limitsFile = NoFile
    /\ rosterFile \in Rosters
    /\ store \in {NewStore(l) : l \in Layouts}
    /\ rosterFile = GoodRoster \/ store.layout = "current"

\* Both students have a key and the operator has set targets.
InitEstablished ==
    /\ \E limitA \in Limits : remote = RemoteBoth(limitA, FALSE, Num(7), FALSE)
    /\ \E tlA \in {"", "unlimited", "0", "5.0", "abc"},
          tdA \in {"", "true", "false"},
          rowB \in {<<"7.0", "false">>, <<"5", "True">>} :
          limitsFile = TargetFile(remote, tlA, tdA, rowB[1], rowB[2])
    /\ rosterFile = GoodRoster
    /\ store = NewStore("current")

\* An established class whose roster or store is defective.
InitDefective ==
    /\ remote = RemoteBoth(Num(5), FALSE, Num(7), FALSE)
    /\ limitsFile = TargetFile(remote, "0", "false", "7", "true")
    /\ rosterFile \in Rosters
    /\ store \in {NewStore(l) : l \in Layouts}
    /\ rosterFile # GoodRoster \/ store.layout # "current"

\* An established class in which the key of StudentA is disabled and the
\* operator left its target_disabled blank or set it.
InitDisabled ==
    /\ remote = RemoteBoth(Num(5), TRUE, Num(7), FALSE)
    /\ \E tdA \in {"", "true"} :
          limitsFile = TargetFile(remote, "5.0", tdA, "7.0", "false")
    /\ rosterFile = GoodRoster
    /\ store = NewStore("current")

\* Both students have a key, set up outside the tool, and there is no
\* target file yet.
InitUntargeted ==
    /\ \E limitA \in Limits, disabledA \in BOOLEAN :
          remote = RemoteBoth(limitA, disabledA, Num(7), FALSE)
    /\ limitsFile = NoFile
    /\ rosterFile = GoodRoster
    /\ store = NewStore("current")

\* A row of the target file for an email that has no key in the listing.
UnknownRow(target_limit) ==
    [email |-> "c@mq", target_limit |-> target_limit, actual_limit |-> "9",
     target_disabled |-> "true", actual_disabled |-> "false", hash |-> 3]

\* An established class whose target file still has the row of a student
\* who left, between the rows of StudentA and StudentB; the operator
\* changed the targets of StudentB.
InitUnknownRow ==
    /\ remote = RemoteBoth(Num(5), FALSE, Num(7), FALSE)
    /\ \E target_limit \in {"abc", "9.0"} :
       \E file \in {TargetFile(remote, "5.0", "false", "5", "true")} :
          limitsFile = [file EXCEPT !.rows = <<file.rows[1], UnknownRow(target_limit),
                                               file.rows[2]>>]
    /\ rosterFile = GoodRoster
    /\ store = NewStore("current")

\* A student whose budget cell is empty, and one whose identifier has a
\* hyphen inside; validate_roster_row accepts both.
StudentNoBudget == [StudentB EXCEPT !.budget = ""]
StudentHyphen == [StudentB EXCEPT !.mq_id = <<"1", "-", "2">>]

\* Nothing has been provisioned, and the roster has StudentA and one of the
\* two students above.
InitNewStudent ==
    /\ remote = <<>>
    /\ limitsFile = NoFile
    /\ rosterFile \in {<<StudentA, StudentNoBudget>>, <<StudentA, StudentHyphen>>}
    /\ store = NewStore("current")

\* The row save_limits wrote for a key of an email, with the operator's
\* target_limit.
TargetRow(key, email, target_limit) ==
    [email |-> email, target_limit |-> target_limit,
     actual_limit |-> LimitCell(key.limit, FALSE),
     target_disabled |-> lower(BoolStr(key.disabled)),
     actual_disabled |-> lower(BoolStr(key.disabled)),
     hash |-> key.hash]

\* StudentA has two keys (hashes 1 and 3), as two provision runs on two
\* machines leave them; the target file has a row for each key and the
\* operator raised the limit in both rows of StudentA, or in the first.
InitTwoKeys ==
    /\ \E both \in {RemoteBoth(Num(5), FALSE, Num(7), FALSE)} :
          remote = Append(both, [both[1] EXCEPT !.hash = 3])
    /\ \E second \in {"7.0", "5.0"} :
          limitsFile = [exists |-> TRUE,
                        rows |-> <<TargetRow(remote[1], "a@mq", "7.0"),
                                   TargetRow(remote[3], "a@mq", second),
                                   TargetRow(remote[2], "b@mq", "7.0")>>]
    /\ rosterFile = GoodRoster
    /\ store = NewStore("current")

Init ==
    /\ \/ InitFresh
       \/ InitEstablished
       \/ InitDefective
       \/ InitDisabled
       \/ InitUntargeted
       \/ InitUnknownRow
       \/ InitNewStudent
       \/ InitTwoKeys
    /\ txn = <<>>
    /\ exports = <<>>
    /\ pc = "idle"
    /\ inv = NoInvocation
    /\ prev = Summary
    /\ runs = 0
    /\ call = NoCall
    /\ result = NoResult

(***************************************************************************)
(* Remote calls, as the invocation records them.                           *)
(***************************************************************************)
ListCall(ok) == [op |-> "list", ok |-> ok]
UpdateCall(ok, key_hash, payload) ==
    [op |-> "update", ok |-> ok, key_hash |-> key_hash, payload |-> payload]
CreateCall(ok, name, limit) ==
    [op |-> "create", ok |-> ok, name |-> name, limit |-> limit]

SnapshotRows(sorted) ==
    [i \in DOMAIN sorted |-> [email |-> sorted[i].email, hash |-> sorted[i].key.hash]]

\* export_snapshot: one file per call, a row per matched key sorted by email.
Snapshot(openrouter_keys, roster, timestamp) ==
    [kind |-> "snapshot", at |-> timestamp,
     rows |-> SnapshotRows(SortByEmail(map_keys_to_roster(openrouter_keys, roster).matched))]

\* The invocation ends with the given exit status.
Exit(invocation, code) ==
    /\ pc' = "idle"
    /\ inv' = [invocation EXCEPT !.exitCode = code]

\* An update that goes on to apply its changes also with --dry-run.
UpdateStartAppliesDryRun(dry, fetchOk) ==
    /\ pc = "idle"
    /\ UNCHANGED direct
    /\ runs < MaxRuns
    /\ runs' = runs + 1
    /\ prev' = Summary
    /\ UNCHANGED <<remote, rosterFile, store, limitsFile, exports>>
    /\ limitsFile.exists /\ store.layout # "absent" /\ fetchOk
    /\ load_roster(rosterFile).err = NoError
    /\ \E diff \in {ComputeChanges(limitsFile.rows,
                        map_keys_to_roster(remote, load_roster(rosterFile).roster).matched)} :
          /\ diff.err = NoError
          /\ diff.changes # <<>>
          /\ pc' = "applying"
          /\ inv' = [NewInvocation("update", dry, runs + 1) EXCEPT
                        !.calls = <<ListCall(fetchOk)>>,
                        !.changes_to_apply = diff.changes, !.idx = 1]
          /\ txn' = <<>>

(***************************************************************************)
(* update: steps 1-5 (fetch, load, match, diff, plan).  In the actions,    *)
(* \E x \in {e} names the value of e, as the local variable of the code.   *)
(***************************************************************************)
UpdateStart(dry, fetchOk) ==
    /\ pc = "idle"
    /\ UNCHANGED direct
    /\ runs < MaxRuns
    /\ runs' = runs + 1
    /\ prev' = Summary
    /\ UNCHANGED <<remote, rosterFile, store>>
    /\ \E new \in {NewInvocation("update", dry, runs + 1)} :
       \E fetched \in {[new EXCEPT !.calls = <<ListCall(fetchOk)>>]} :
           IF ~limitsFile.exists
           THEN \* click.Path(exists=True) rejects the option
                Exit(new, 2) /\ UNCHANGED <<limitsFile, txn, exports>>
           ELSE IF store.layout = "absent"
           THEN Exit(new, 1) /\ UNCHANGED <<limitsFile, txn, exports>>
           ELSE IF ~fetchOk
           THEN Exit(fetched, 1) /\ UNCHANGED <<limitsFile, txn, exports>>
           ELSE
       \E loaded \in {load_roster(rosterFile)} :
           IF loaded.err # NoError
           THEN Exit(fetched, 1) /\ UNCHANGED <<limitsFile, txn, exports>>
           ELSE
       \E matched \in {map_keys_to_roster(remote, loaded.roster).matched} :
       \E diff \in {ComputeChanges(limitsFile.rows, matched)} :
           IF diff.err # NoError
           THEN Exit(fetched, 1) /\ UNCHANGED <<limitsFile, txn, exports>>
           ELSE IF diff.changes = <<>>
           THEN \E saved \in {save_limits(remote, loaded.roster, limitsFile)} :
                /\ limitsFile' = saved.limits
                /\ IF saved.err # NoError
                   THEN Exit(fetched, 1) /\ UNCHANGED exports
                   ELSE /\ Exit(fetched, 0)
                        /\ exports' = Append(exports,
                                             Snapshot(remote, loaded.roster, runs + 1))
                /\ UNCHANGED txn
           ELSE IF dry
           THEN /\ Exit([fetched EXCEPT !.changes_to_apply = diff.changes], 0)
                /\ UNCHANGED <<limitsFile, txn, exports>>
           ELSE /\ pc' = "applying"
                /\ inv' = [fetched EXCEPT !.changes_to_apply = diff.changes, !.idx = 1]
                /\ txn' = <<>>
                /\ UNCHANGED <<limitsFile, exports>>

\* The except clause of the loop of update(): the position at which the
\* invocation goes on after the error at change i.
SkipFailedChange(i) == [pc |-> "applying", idx |-> i + 1, exitCode |-> 0]
OnUpdateError(i) == [pc |-> "idle", idx |-> i, exitCode |-> 1]

(***************************************************************************)
(* update: one turn of the loop of step 6.  The call succeeds or fails.    *)
(***************************************************************************)
UpdateApply(ok) ==
    /\ pc = "applying"
    /\ UNCHANGED direct
    /\ inv.cmd = "update"
    /\ inv.idx <= Len(inv.changes_to_apply)
    /\ UNCHANGED <<rosterFile, limitsFile, exports, prev, runs>>
    /\ \E change \in {inv.changes_to_apply[inv.idx]} :
       \E payload \in {ChangePayload(change)} :
       \E success \in {ok /\ PayloadAccepted(payload)} :
       \E called \in {[inv EXCEPT !.calls = Append(@, UpdateCall(success, change.key_hash, payload))]} :
       \E after \in {OnUpdateError(inv.idx)} :
           /\ remote' = IF success
                        THEN Patched(remote, change.key_hash, payload)
                        ELSE remote
           /\ IF success /\ HasTables(store)
              THEN /\ txn' = InsertChangelog(txn, UpdateEntry(change, inv.timestamp))
                   /\ inv' = [called EXCEPT !.idx = @ + 1]
                   /\ UNCHANGED <<pc, store>>
              ELSE \* the call raised, or the INSERT did: except Exception
                   /\ store' = IF HasTables(store) THEN Commit(store, txn) ELSE store
                   /\ txn' = <<>>
                   /\ pc' = after.pc
                   /\ inv' = [called EXCEPT !.idx = after.idx,
                                            !.exitCode = after.exitCode]

(***************************************************************************)
(* update: after the loop (commit) and step 7 (re-fetch, refresh).         *)
(***************************************************************************)
UpdateFinish(fetchOk) ==
    /\ pc = "applying"
    /\ UNCHANGED direct
    /\ inv.cmd = "update"
    /\ inv.idx > Len(inv.changes_to_apply)
    /\ UNCHANGED <<remote, rosterFile, prev, runs>>
    /\ txn' = <<>>
    /\ \E committed \in {Commit(store, txn)} :
       \E fetched \in {[inv EXCEPT !.calls = Append(@, ListCall(fetchOk))]} :
           IF ~fetchOk
           THEN /\ store' = committed
                /\ Exit(fetched, 1)
                /\ UNCHANGED <<limitsFile, exports>>
           ELSE
       \E roster \in {load_roster(rosterFile).roster} :
       \E refreshed \in {update_database(committed, remote, roster, inv.timestamp)} :
           IF refreshed.err # NoError
           THEN /\ store' = committed
                /\ Exit(fetched, 1)
                /\ UNCHANGED <<limitsFile, exports>>
           ELSE
       \E saved \in {save_limits(remote, roster, limitsFile)} :
                /\ store' = refreshed.store
                /\ limitsFile' = saved.limits
                /\ IF saved.err # NoError
                   THEN Exit(fetched, 1) /\ UNCHANGED exports
                   ELSE /\ Exit(fetched, 0)
                        /\ exports' = Append(exports,
                                             Snapshot(remote, roster, inv.timestamp))

(***************************************************************************)
(* The process is killed inside a batch: what its connection had not       *)
(* committed is rolled back.                                               *)
(***************************************************************************)
Crash ==
    /\ pc \in {"applying", "creating"}
    /\ UNCHANGED direct
    /\ pc' = "idle"
    /\ inv' = [inv EXCEPT !.exitCode = -9]
    /\ txn' = <<>>
    /\ UNCHANGED <<remote, rosterFile, limitsFile, store, exports, prev, runs>>

(***************************************************************************)
(* init-db.                                                                *)
(***************************************************************************)
\* An init_db that creates the schema anew on a store of the current
\* version.
InitDbRecreates(db) ==
    CASE db.layout = "legacy" -> [store |-> db, exitCode |-> 1]
      [] db.layout = "v1" -> [store |-> db, exitCode |-> 1]
      [] OTHER -> [store |-> NewStore("current"), exitCode |-> 0]

\* The store init_db leaves and its exit status: a store with legacy tables
\* and no schema_version table, or with a version below SCHEMA_VERSION, is
\* refused; a current one is left alone; otherwise the schema is created.
init_db(db) ==
    CASE db.layout = "legacy" -> [store |-> db, exitCode |-> 1]
      [] db.layout = "v1" -> [store |-> db, exitCode |-> 1]
      [] db.layout = "current" -> [store |-> db, exitCode |-> 0]
      [] OTHER -> [store |-> NewStore("current"), exitCode |-> 0]

InitDb ==
    /\ pc = "idle"
    /\ UNCHANGED direct
    /\ runs < MaxRuns
    /\ runs' = runs + 1
    /\ prev' = Summary
    /\ store' = init_db(store).store
    /\ Exit(NewInvocation("init-db", FALSE, runs + 1), init_db(store).exitCode)
    /\ UNCHANGED <<remote, rosterFile, limitsFile, txn, exports>>

(***************************************************************************)
(* check.                                                                  *)
(***************************************************************************)
Check(fetchOk) ==
    /\ pc = "idle"
    /\ UNCHANGED direct
    /\ runs < MaxRuns
    /\ runs' = runs + 1
    /\ prev' = Summary
    /\ UNCHANGED <<remote, rosterFile, limitsFile, txn>>
    /\ \E new \in {NewInvocation("check", FALSE, runs + 1)} :
       \E fetched \in {[new EXCEPT !.calls = <<ListCall(fetchOk)>>]} :
           IF store.layout = "absent"
           THEN Exit(new, 1) /\ UNCHANGED <<store, exports>>
           ELSE IF ~fetchOk
           THEN Exit(fetched, 1) /\ UNCHANGED <<store, exports>>
           ELSE
       \E loaded \in {load_roster(rosterFile)} :
           IF loaded.err # NoError
           THEN Exit(fetched, 1) /\ UNCHANGED <<store, exports>>
           ELSE
       \E refreshed \in {update_database(store, remote, loaded.roster, runs + 1)} :
           IF refreshed.err # NoError
           THEN Exit(fetched, 1) /\ UNCHANGED <<store, exports>>
           ELSE /\ store' = refreshed.store
                /\ exports' = Append(exports, Snapshot(remote, loaded.roster, runs + 1))
                /\ Exit(fetched, 0)

(***************************************************************************)
(* provision: steps 1-6 (fetch, load, match, plan).                        *)
(***************************************************************************)
\* student_limit: the --limit override if given, else the roster budget.
StudentLimit(limit, info) == IF limit # None THEN limit ELSE info.budget

\* Whether the roster entry needs a key: in no matched pair, no placeholder.
NeedsKey(entry, matched) ==
    /\ \A i \in DOMAIN matched : matched[i].email # entry.email
    /\ ~IsPlaceholder(entry.email)

\* A plan that takes a student without budget along, with no limit.
RECURSIVE PlanFromAnyBudget(_, _, _, _, _)
PlanFromAnyBudget(roster, matched, limit, i, plan) ==
    IF i > Len(roster)
    THEN [err |-> NoError, to_provision |-> plan]
    ELSE IF ~NeedsKey(roster[i], matched)
    THEN PlanFromAnyBudget(roster, matched, limit, i + 1, plan)
    ELSE PlanFromAnyBudget(roster, matched, limit, i + 1,
                  Append(plan, [email |-> roster[i].email, info |-> roster[i].info,
                                limit |-> StudentLimit(limit, roster[i].info),
                                limit_reset |-> roster[i].info.limit_reset]))

RECURSIVE PlanFrom(_, _, _, _, _)
PlanFrom(roster, matched, limit, i, plan) ==
    IF i > Len(roster)
    THEN [err |-> NoError, to_provision |-> plan]
    ELSE IF ~NeedsKey(roster[i], matched)
    THEN PlanFrom(roster, matched, limit, i + 1, plan)
    ELSE IF StudentLimit(limit, roster[i].info) = None
    THEN [err |-> [t |-> "NoBudget", email |-> roster[i].email], to_provision |-> <<>>]
    ELSE PlanFrom(roster, matched, limit, i + 1,
                  Append(plan, [email |-> roster[i].email, info |-> roster[i].info,
                                limit |-> StudentLimit(limit, roster[i].info),
                                limit_reset |-> roster[i].info.limit_reset]))

\* [err, to_provision], in roster order.
ToProvision(roster, matched, limit) == PlanFrom(roster, matched, limit, 1, <<>>)

ProvisionStart(dry, limit, fetchOk) ==
    /\ pc = "idle"
    /\ UNCHANGED direct
    /\ runs < MaxRuns
    /\ runs' = runs + 1
    /\ prev' = Summary
    /\ UNCHANGED <<remote, rosterFile, store, txn>>
    /\ \E new \in {NewInvocation("provision", dry, runs + 1)} :
       \E fetched \in {[new EXCEPT !.calls = <<ListCall(fetchOk)>>]} :
           IF store.layout = "absent"
           THEN Exit(new, 1) /\ UNCHANGED <<limitsFile, exports>>
           ELSE IF ~fetchOk
           THEN Exit(fetched, 1) /\ UNCHANGED <<limitsFile, exports>>
           ELSE
       \E loaded \in {load_roster(rosterFile)} :
           IF loaded.err # NoError \/ loaded.roster = <<>>
           THEN Exit(fetched, 1) /\ UNCHANGED <<limitsFile, exports>>
           ELSE
       \E matched \in {map_keys_to_roster(remote, loaded.roster).matched} :
       \E plan \in {ToProvision(loaded.roster, matched, limit)} :
           IF plan.err # NoError
           THEN Exit(fetched, 1) /\ UNCHANGED <<limitsFile, exports>>
           ELSE IF plan.to_provision = <<>>
           THEN \E saved \in {save_limits(remote, loaded.roster, limitsFile)} :
                /\ limitsFile' = saved.limits
                /\ IF saved.err # NoError
                   THEN Exit(fetched, 1) /\ UNCHANGED exports
                   ELSE /\ Exit(fetched, 0)
                        /\ exports' = Append(exports,
                                             Snapshot(remote, loaded.roster, runs + 1))
           ELSE IF dry
           THEN /\ Exit([fetched EXCEPT !.to_provision = plan.to_provision], 0)
                /\ UNCHANGED <<limitsFile, exports>>
           ELSE /\ pc' = "creating"
                /\ inv' = [fetched EXCEPT !.to_provision = plan.to_provision, !.idx = 1]
                /\ UNCHANGED <<limitsFile, exports>>

(***************************************************************************)
(* provision: one turn of the loop of step 7.                              *)
(***************************************************************************)
ProvisionCreate(ok) ==
    /\ pc = "creating"
    /\ UNCHANGED direct
    /\ inv.idx <= Len(inv.to_provision)
    /\ UNCHANGED <<rosterFile, limitsFile, store, txn, exports, prev, runs>>
    /\ \E item \in {inv.to_provision[inv.idx]} :
       \E key_name \in {build_key_name(item.info)} :
       \E created \in {CreatedKey(remote, key_name, item.limit, item.limit_reset)} :
       \E called \in {[inv EXCEPT !.calls = Append(@, CreateCall(ok, key_name, item.limit))]} :
           IF ok
           THEN /\ remote' = Append(remote, created)
                /\ inv' = [called EXCEPT
                            !.idx = @ + 1,
                            !.created_keys =
                                Append(@, [email |-> item.email, info |-> item.info,
                                           limit |-> item.limit,
                                           limit_reset |-> item.limit_reset,
                                           hash |-> created.hash,
                                           name |-> created.name])]
                /\ UNCHANGED pc
           ELSE /\ Exit(called, 1)
                /\ UNCHANGED remote

RECURSIVE InsertProvisioned(_, _, _, _)
\* The loop of step 9 over created_keys.
InsertProvisioned(rows, created_keys, i, timestamp) ==
    IF i > Len(created_keys)
    THEN rows
    ELSE InsertProvisioned(
            InsertChangelog(rows, ProvisionedEntry(created_keys[i], timestamp)),
            created_keys, i + 1, timestamp)

\* The api_keys file of step 12: a row per created key, with its secret.
ApiKeysFile(created_keys, timestamp) ==
    [kind |-> "api_keys", at |-> timestamp,
     rows |-> [i \in DOMAIN created_keys |->
                 [email |-> created_keys[i].email, hash |-> created_keys[i].hash]]]

(***************************************************************************)
(* provision: steps 8-12 (re-fetch, changelog, refresh, files).            *)
(***************************************************************************)
ProvisionFinish(fetchOk) ==
    /\ pc = "creating"
    /\ UNCHANGED direct
    /\ inv.idx > Len(inv.to_provision)
    /\ UNCHANGED <<remote, rosterFile, txn, prev, runs>>
    /\ \E fetched \in {[inv EXCEPT !.calls = Append(@, ListCall(fetchOk))]} :
           IF ~fetchOk \/ ~HasTables(store)
           THEN \* nothing of this connection was committed
                Exit(fetched, 1) /\ UNCHANGED <<store, limitsFile, exports>>
           ELSE
       \E roster \in {load_roster(rosterFile).roster} :
       \E logged \in {Commit(store, InsertProvisioned(<<>>, inv.created_keys, 1, inv.timestamp))} :
       \E refreshed \in {update_database(logged, remote, roster, inv.timestamp)} :
           IF refreshed.err # NoError
           THEN Exit(fetched, 1) /\ UNCHANGED <<store, limitsFile, exports>>
           ELSE
       \E saved \in {save_limits(remote, roster, limitsFile)} :
                /\ store' = refreshed.store
                /\ limitsFile' = saved.limits
                /\ IF saved.err # NoError
                   THEN Exit(fetched, 1) /\ UNCHANGED exports
                   ELSE /\ Exit(fetched, 0)
                        /\ exports' = exports
                              \o <<Snapshot(remote, roster, inv.timestamp),
                                   ApiKeysFile(inv.created_keys, inv.timestamp)>>

(***************************************************************************)
(* refresh-limits-file: fetch, load, rewrite the target file.  The         *)
(* mismatches it then reads back from the file are only printed.           *)
(***************************************************************************)
RefreshLimitsFile(fetchOk) ==
    /\ pc = "idle"
    /\ UNCHANGED direct
    /\ runs < MaxRuns
    /\ runs' = runs + 1
    /\ prev' = Summary
    /\ UNCHANGED <<remote, rosterFile, store, txn, exports>>
    /\ \E new \in {NewInvocation("refresh-limits-file", FALSE, runs + 1)} :
       \E fetched \in {[new EXCEPT !.calls = <<ListCall(fetchOk)>>]} :
           IF ~fetchOk
           THEN Exit(fetched, 1) /\ UNCHANGED limitsFile
           ELSE
       \E loaded \in {load_roster(rosterFile)} :
           IF loaded.err # NoError \/ loaded.roster = <<>>
           THEN Exit(fetched, 1) /\ UNCHANGED limitsFile
           ELSE
       \E saved \in {save_limits(remote, loaded.roster, limitsFile)} :
                /\ limitsFile' = saved.limits
                /\ Exit(fetched, IF saved.err # NoError THEN 1 ELSE 0)

(***************************************************************************)
(* export-keys: the rows of key joined with student, from the store alone. *)
(***************************************************************************)
\* SELECT ... FROM key k JOIN student s ON k.email = s.email
JoinedKeys(db) == {k \in db.key : \E s \in db.student : s.email = k.email}

\* ORDER BY k.email; keys of one email in the order of their hashes.
ExportOrder(k) == EmailRank(k.email) * 100 + k.key_hash

RECURSIVE OrderedByEmail(_)
OrderedByEmail(keys) ==
    IF keys = {}
    THEN <<>>
    ELSE LET first == CHOOSE k \in keys : \A other \in keys : ExportOrder(k) <= ExportOrder(other)
         IN  <<first>> \o OrderedByEmail(keys \ {first})

\* The file export_keys writes: a row per key of the query.
ExportedKeys(db, timestamp) ==
    [kind |-> "export_keys", at |-> timestamp,
     rows |-> [i \in DOMAIN OrderedByEmail(JoinedKeys(db)) |->
                 [email |-> OrderedByEmail(JoinedKeys(db))[i].email,
                  hash |-> OrderedByEmail(JoinedKeys(db))[i].key_hash]]]

ExportKeys ==
    /\ pc = "idle"
    /\ UNCHANGED direct
    /\ runs < MaxRuns
    /\ runs' = runs + 1
    /\ prev' = Summary
    /\ UNCHANGED <<remote, rosterFile, limitsFile, store, txn>>
    /\ \E new \in {NewInvocation("export-keys", FALSE, runs + 1)} :
           IF store.layout = "absent"
           THEN Exit(new, 1) /\ UNCHANGED exports
           ELSE IF ~HasTables(store)
           THEN \* no such table: key
                Exit(new, 1) /\ UNCHANGED exports
           ELSE IF JoinedKeys(store) = {}
           THEN Exit(new, 0) /\ UNCHANGED exports
           ELSE /\ exports' = Append(exports, ExportedKeys(store, runs + 1))
                /\ Exit(new, 0)

Next ==
    \/ InitDb
    \/ \E fetchOk \in BOOLEAN : RefreshLimitsFile(fetchOk)
    \/ ExportKeys
    \/ \E fetchOk \in BOOLEAN : Check(fetchOk)
    \/ \E dry \in BOOLEAN, limit \in {None, Num(5)}, fetchOk \in BOOLEAN :
          ProvisionStart(dry, limit, fetchOk)
    \/ \E ok \in BOOLEAN : ProvisionCreate(ok)
    \/ \E fetchOk \in BOOLEAN : ProvisionFinish(fetchOk)
    \/ \E dry \in BOOLEAN, fetchOk \in BOOLEAN : UpdateStart(dry, fetchOk)
    \/ \E ok \in BOOLEAN : UpdateApply(ok)
    \/ \E fetchOk \in BOOLEAN : UpdateFinish(fetchOk)
    \/ Crash

Spec == Init /\ [][Next]_vars

(***************************************************************************)
(* Direct calls of the functions of the module, on arguments drawn from    *)
(* bounded sets.  No command runs; the state of the commands stays as      *)
(* Idle sets it.                                                           *)
(***************************************************************************)
Idle ==
    /\ remote = <<>>
    /\ rosterFile = <<>>
    /\ limitsFile = NoFile
    /\ store = NewStore("absent")
    /\ txn = <<>>
    /\ exports = <<>>
    /\ pc = "idle"
    /\ inv = NoInvocation
    /\ prev = Summary
    /\ runs = 0

\* The number of keys of a listing that is an argument.
MaxKeys == 3

\* Student records as load_roster returns them.
InfoA == [first_name |-> <<"A">>, last_name |-> <<"K">>, mq_id |-> <<"1">>,
          budget |-> Num(5), limit_reset |-> Str("weekly")]
InfoB == [InfoA EXCEPT !.first_name = <<"B">>, !.mq_id = <<"2">>]
\* A student with the identifier of InfoA.
InfoD == [InfoA EXCEPT !.first_name = <<"D">>]

\* Loaded rosters: empty, one student, two who share a last name, two who
\* share an identifier.
LoadedRosters ==
    {<<>>,
     <<[email |-> "a@mq", info |-> InfoA]>>,
     <<[email |-> "a@mq", info |-> InfoA], [email |-> "b@mq", info |-> InfoB]>>,
     <<[email |-> "a@mq", info |-> InfoA], [email |-> "d@mq", info |-> InfoD]>>}

\* Labels: of InfoA, of InfoB, the name of InfoA with an unknown identifier,
\* the name of InfoA without identifier, no date.
Labels ==
    {build_key_name(InfoA),
     build_key_name(InfoB),
     Today \o <<"_", "A", " ", "K", "_", "9">>,
     Today \o <<"_", "A", " ", "K">>,
     <<"A", "K">>}

\* A listing of the labels: the hash of a key is its position.
Listing(labels) ==
    [i \in DOMAIN labels |->
        [hash |-> i, name |-> labels[i], limit |-> None, disabled |-> FALSE,
         usage |-> 0, limit_reset |-> None]]

Listings ==
    UNION {{Listing(labels) : labels \in [1..n -> Labels]} : n \in 0..MaxKeys}

MapCalls ==
    {[fn |-> "map_keys_to_roster", openrouter_keys |-> keys, roster |-> roster] :
        keys \in Listings, roster \in LoadedRosters}

\* The number of data rows of a roster file that is an argument.
MaxRows == 2

\* Rows of a roster file: StudentA and StudentB, StudentB with required
\* fields blank, a student with the mq_id of StudentA, a row of a file
\* without email column.
FileRows ==
    {StudentA,
     StudentB,
     [StudentB EXCEPT !.first_name = <<" ">>],
     [StudentB EXCEPT !.last_name = <<>>],
     [StudentB EXCEPT !.mq_id = <<" ", " ">>],
     [StudentB EXCEPT !.first_name = <<>>, !.mq_id = <<>>],
     [StudentB EXCEPT !.limit_reset = "yearly"],
     [StudentA EXCEPT !.email = "d@mq", !.first_name = <<" ", "D">>],
     [first_name |-> <<"C">>, last_name |-> <<" ">>, mq_id |-> <<"3">>,
      budget |-> "", limit_reset |-> ""]}

LoadCalls ==
    UNION {{[fn |-> "load_roster", rows |-> rows] : rows \in [1..n -> FileRows]}
            : n \in 0..MaxRows}

\* Loaded records of valid students: every budget, with and without
\* cadence.
ValidInfos(first_name, mq_id) ==
    {[first_name |-> first_name, last_name |-> <<"K">>, mq_id |-> mq_id,
      budget |-> budget, limit_reset |-> limit_reset] :
        budget \in {None, Num(0), Num(5)},
        limit_reset \in {None, Str("weekly")}}

\* Roster mappings of one or two valid students, in both insertion orders.
SaveCalls ==
    {[fn |-> "save_roster",
      roster_dict |-> <<[email |-> "a@mq", info |-> a]>>] :
        a \in ValidInfos(<<"A">>, <<"1">>)}
    \cup
    {[fn |-> "save_roster",
      roster_dict |-> IF aFirst
                      THEN <<[email |-> "a@mq", info |-> a], [email |-> "b@mq", info |-> b]>>
                      ELSE <<[email |-> "b@mq", info |-> b], [email |-> "a@mq", info |-> a]>>] :
        a \in ValidInfos(<<"A">>, <<"1">>), b \in ValidInfos(<<"B">>, <<"2">>),
        aFirst \in BOOLEAN}

\* Students that pass validation: names with a space or an underscore
\* inside, identifiers of digits, of letters and digits, and with a
\* hyphen, an underscore or a space inside.
CodecNames == {<<"A">>, <<"A", " ", "B">>, <<"A", "_", "B">>}
CodecIds ==
    {<<"1">>, <<"1", "2">>, <<"A", "1">>,
     <<"1", "-", "2">>, <<"1", "_", "2">>, <<"1", " ", "2">>}
CodecDates == {Today, <<"1", "9", "9", "9", "1", "2", "3", "1">>}

BuildCalls ==
    {[fn |-> "build_key_name",
      student_info |-> [first_name |-> first_name, last_name |-> <<"K">>,
                        mq_id |-> mq_id, budget |-> None, limit_reset |-> None],
      date |-> date] :
        first_name \in CodecNames, mq_id \in CodecIds, date \in CodecDates}

\* Display names without and with an underscore inside.
ParseNames == {<<"A", " ", "K">>, <<"A", " ", "B", "_", "K">>}

\* Labels that are arguments of parse_key_name: empty, without date, a
\* date of seven digits, a date and nothing after it, a date and a name, and
\* a date, a name and an identifier of digits, with a hyphen and with an
\* underscore inside.
ParseLabels ==
    {<<>>,
     <<"A", "K">>,
     <<"2", "0", "2", "6", "0", "2", "2", "_", "A">>,
     Today \o <<"_">>}
    \cup {Today \o <<"_">> \o name : name \in ParseNames}
    \cup {Today \o <<"_", "A", " ", "K", "_">> \o mq_id :
            mq_id \in {<<"1">>, <<"1", "-", "2">>, <<"1", "_", "2">>}}

ParseCalls == {[fn |-> "parse_key_name", key_name |-> label] : label \in ParseLabels}

\* The number of refreshes of a sequence.
MaxRefreshes == 2

\* Rosters of a refresh: StudentA, StudentA under a corrected first name,
\* both students, a student with the identifier of StudentA under another
\* email, nobody.
RefreshRosters ==
    {<<[email |-> "a@mq", info |-> InfoA]>>,
     <<[email |-> "a@mq", info |-> [InfoA EXCEPT !.first_name = <<"C">>]]>>,
     <<[email |-> "a@mq", info |-> InfoA], [email |-> "b@mq", info |-> InfoB]>>,
     <<[email |-> "d@mq", info |-> InfoD]>>,
     <<>>}

\* Listings of a refresh: the keys of both students and a key of an
\* unknown identifier; the same after the key of StudentA was deleted.
RefreshListings ==
    {Listing(<<build_key_name(InfoA), build_key_name(InfoB),
               Today \o <<"_", "A", " ", "K", "_", "9">>>>),
     Tail(Listing(<<build_key_name(InfoA), build_key_name(InfoB),
                    Today \o <<"_", "A", " ", "K", "_", "9">>>>))}

\* Sequences of refreshes, each with its listing and its roster.
RefreshCalls ==
    {[fn |-> "update_database", steps |-> steps] :
        steps \in [1..MaxRefreshes ->
                    {[openrouter_keys |-> keys, roster |-> roster] :
                        keys \in RefreshListings, roster \in RefreshRosters}]}

Calls ==
    MapCalls \cup LoadCalls \cup SaveCalls \cup BuildCalls \cup ParseCalls \cup RefreshCalls

InitDirect ==
    /\ Idle
    /\ call \in Calls
    /\ result = NoResult

\* map_keys_to_roster(openrouter_keys, roster) returns.
MapKeys ==
    /\ call.fn = "map_keys_to_roster"
    /\ result = NoResult
    /\ result' = map_keys_to_roster(call.openrouter_keys, call.roster)
    /\ UNCHANGED <<world, call>>

\* load_roster(path) returns or raises: on the rows of the call, or on
\* the file a save_roster call wrote.
LoadRoster ==
    \/ /\ call.fn = "load_roster"
       /\ result = NoResult
       /\ result' = load_roster(call.rows)
       /\ UNCHANGED <<world, call>>
    \/ /\ call.fn = "save_roster"
       /\ result # NoResult
       /\ result.loaded = NoResult
       /\ result' = [result EXCEPT !.loaded = load_roster(result.rows)]
       /\ UNCHANGED <<world, call>>

\* save_roster(roster_dict, path) writes the file.
SaveRoster ==
    /\ call.fn = "save_roster"
    /\ result = NoResult
    /\ result' = [rows |-> save_roster(call.roster_dict), loaded |-> NoResult]
    /\ UNCHANGED <<world, call>>

\* build_key_name(student_info, date) returns the label.
BuildName ==
    /\ call.fn = "build_key_name"
    /\ result = NoResult
    /\ result' = [key_name |-> BuildKeyName(call.student_info, call.date),
                  parsed |-> NoResult]
    /\ UNCHANGED <<world, call>>

\* parse_key_name(key_name) on the label that was built.
ParseName ==
    /\ call.fn = "build_key_name"
    /\ result # NoResult
    /\ result.parsed = NoResult
    /\ result' = [result EXCEPT !.parsed = parse_key_name(result.key_name)]
    /\ UNCHANGED <<world, call>>

\* parse_key_name(key_name) returns.
ParseLabel ==
    /\ call.fn = "parse_key_name"
    /\ result = NoResult
    /\ result' = parse_key_name(call.key_name)
    /\ UNCHANGED <<world, call>>

\* update_database(conn, openrouter_keys, roster) on a store of the current
\* schema, once for each step of the call and each time on a connection of
\* its own, as the commands make it: a refresh that raises has committed
\* nothing.  The clock of the timestamps is the number of the step.
Refresh ==
    /\ call.fn = "update_database"
    /\ \E done \in {IF result = NoResult THEN 0 ELSE result.done} :
       \E before \in {IF result = NoResult THEN NewStore("current") ELSE result.store} :
          /\ done < Len(call.steps)
          /\ \E refreshed \in {update_database(before,
                                                call.steps[done + 1].openrouter_keys,
                                                call.steps[done + 1].roster,
                                                done + 1)} :
                result' = [store |-> IF refreshed.err = NoError
                                     THEN refreshed.store
                                     ELSE before,
                           before |-> before,
                           done |-> done + 1,
                           errs |-> IF result = NoResult
                                    THEN <<refreshed.err>>
                                    ELSE Append(result.errs, refreshed.err)]
    /\ UNCHANGED <<world, call>>

NextDirect ==
    \/ Refresh
    \/ MapKeys
    \/ LoadRoster
    \/ SaveRoster
    \/ BuildName
    \/ ParseName
    \/ ParseLabel

SpecDirect == InitDirect /\ [][NextDirect]_vars

(***************************************************************************)
(* Properties.                                                             *)
(***************************************************************************)
Last(seq) == seq[Len(seq)]

IsPrefix(a, b) == Len(a) <= Len(b) /\ SubSeq(b, 1, Len(a)) = a

\* The invocation is an update whose last remote call, an update call,
\* failed.
UpdateFailed ==
    /\ inv.cmd = "update"
    /\ inv.calls # <<>>
    /\ Last(inv.calls).op = "update"
    /\ ~Last(inv.calls).ok

\* The text of a change's old or new value.
ValueText(v) == IF v.t = "bool" THEN BoolStr(v.b) ELSE PyStr(v)

\* The changelog row records the change.
EntryRecords(entry, change) ==
    /\ entry.key_hash = change.key_hash
    /\ entry.action = "update_" \o change.change_type
    /\ entry.old_value = Str(ValueText(change.old_value))
    /\ entry.new_value = Str(ValueText(change.new_value))

RECURSIVE RemoteAfter(_, _, _)
\* The listing after the calls of changes 1..k took effect on keys.
RemoteAfter(keys, changes, k) ==
    IF k = 0
    THEN keys
    ELSE Patched(RemoteAfter(keys, changes, k - 1),
                 changes[k].key_hash, ChangePayload(changes[k]))

\* C1: when the remote call of change i of update fails, then after the
\* exit the changelog has exactly one new row for each of changes 1..i-1,
\* recording that change, none for changes i..n, and the service still
\* shows the effects of the calls of changes 1..i-1.
C1_PartialFailurePreserved ==
    (pc = "idle" /\ UpdateFailed) =>
        /\ Len(store.changelog) = inv.start.changelog + (inv.idx - 1)
        /\ \A j \in 1..(inv.idx - 1) :
              EntryRecords(store.changelog[inv.start.changelog + j],
                           inv.changes_to_apply[j])
        /\ remote = RemoteAfter(inv.start.remote, inv.changes_to_apply, inv.idx - 1)

\* The third of four changes failed.
C1_Witness ==
    /\ pc = "idle"
    /\ UpdateFailed
    /\ inv.idx = 3
    /\ Len(inv.changes_to_apply) = 4
    /\ Len(store.changelog) = inv.start.changelog + 2

\* C2: once an update call has failed, the invocation issues no further
\* update call and has ended with a non-zero exit status.
C2_NoCallAfterFailure ==
    \A j \in DOMAIN inv.calls :
        (inv.calls[j].op = "update" /\ ~inv.calls[j].ok) =>
            /\ \A k \in (j + 1)..Len(inv.calls) : inv.calls[k].op # "update"
            /\ pc = "idle"
            /\ inv.exitCode # 0

\* The first of several changes failed and the others were not attempted.
C2_Witness ==
    /\ pc = "idle"
    /\ UpdateFailed
    /\ inv.idx = 1
    /\ Len(inv.changes_to_apply) >= 3
    /\ Len(inv.calls) = 2
    /\ inv.exitCode = 1

\* C3: a provision run stops at the first failing create call, and every
\* key it created has a "provisioned" changelog row without old value once
\* the run has exited (stated for a store of the current schema).
C3_CreatedKeysLogged ==
    ( /\ pc = "idle"
      /\ inv.cmd = "provision"
      /\ inv.exitCode \in {0, 1}
      /\ inv.start.layout = "current" ) =>
        /\ \A j \in DOMAIN inv.calls :
              (inv.calls[j].op = "create" /\ ~inv.calls[j].ok) =>
                  \A k \in (j + 1)..Len(inv.calls) : inv.calls[k].op # "create"
        /\ \A j \in DOMAIN inv.created_keys :
              \E e \in DOMAIN store.changelog :
                  /\ store.changelog[e].key_hash = inv.created_keys[j].hash
                  /\ store.changelog[e].action = "provisioned"
                  /\ store.changelog[e].old_value = None

\* The two target files set the same targets, row by row.
SameTargets(a, b) ==
    /\ Len(a.rows) = Len(b.rows)
    /\ \A i \in DOMAIN a.rows :
          /\ a.rows[i].email = b.rows[i].email
          /\ RowTargetLimit(a.rows[i]) = RowTargetLimit(b.rows[i])
          /\ RowTargetDisabled(a.rows[i]) = RowTargetDisabled(b.rows[i])

\* The invocation found nothing to change: no change computed, no update
\* call, no new changelog row.
NoChange ==
    /\ inv.changes_to_apply = <<>>
    /\ \A j \in DOMAIN inv.calls : inv.calls[j].op # "update"
    /\ Len(store.changelog) = inv.start.changelog

\* C4: an update that follows an update which applied a non-empty change
\* list without failure, with the same targets, changes nothing.
C4_RerunIsNoop ==
    ( /\ pc = "idle"
      /\ inv.cmd = "update"
      /\ prev.cmd = "update"
      /\ prev.exitCode = 0
      /\ ~prev.dry_run
      /\ prev.changes > 0
      /\ SameTargets(prev.start.limits, inv.start.limits) ) => NoChange

\* The limit a target_limit cell stands for; ValueError when it is none.
CellLimit(cell) == IF cell = "unlimited" THEN None ELSE float(cell)

\* Every matched key of the listing has a row whose targets are its
\* actual limit and flag.
TargetsEqualActual(keys, limits) ==
    /\ load_roster(rosterFile).err = NoError
    /\ limits.exists
    /\ \A i \in DOMAIN map_keys_to_roster(keys, load_roster(rosterFile).roster).matched :
          LET m == map_keys_to_roster(keys, load_roster(rosterFile).roster).matched[i]
          IN  \E r \in DOMAIN limits.rows :
                /\ limits.rows[r].email = m.email
                /\ CellLimit(limits.rows[r].target_limit) = m.key.limit
                /\ lower(limits.rows[r].target_disabled) \in {"true", "false"}
                /\ (lower(limits.rows[r].target_disabled) = "true") = m.key.disabled

\* C5: when every target equals the actual value, update changes nothing,
\* and neither does the update run that follows it.
C5_EqualTargetsNoop ==
    (pc = "idle" /\ inv.cmd = "update") =>
        /\ TargetsEqualActual(inv.start.remote, inv.start.limits) => NoChange
        /\ ( /\ prev.cmd = "update"
             /\ prev.exitCode = 0
             /\ TargetsEqualActual(prev.start.remote, prev.start.limits) ) => NoChange

\* The update calls of the invocation that succeeded.
CompletedUpdates == SelectSeq(inv.calls, LAMBDA c : c.op = "update" /\ c.ok)

\* C6: when update is killed inside the batch, the changelog holds a new
\* row for each update call that completed (stated for a store of the
\* current schema).
C6_CrashKeepsCompleted ==
    ( /\ pc = "idle"
      /\ inv.cmd = "update"
      /\ inv.exitCode = -9
      /\ inv.start.layout = "current" ) =>
        /\ Len(store.changelog) = inv.start.changelog + Len(CompletedUpdates)
        /\ \A j \in 1..Len(CompletedUpdates) :
              EntryRecords(store.changelog[inv.start.changelog + j],
                           inv.changes_to_apply[j])

\* C7: every step leaves the committed changelog a prefix of the new one.
C7_ChangelogAppendOnly == [][IsPrefix(store.changelog, store'.changelog)]_vars

\* An invocation appended to a changelog that already held rows.
C7_Witness ==
    /\ pc = "idle"
    /\ inv.start.changelog >= 2
    /\ Len(store.changelog) >= inv.start.changelog + 2

\* The value of the field a change is about, for the key of the hash.
RemoteField(keys, key_hash, change_type) ==
    LET key == keys[CHOOSE i \in DOMAIN keys : keys[i].hash = key_hash]
    IN  IF change_type = "limit" THEN key.limit ELSE Bool(key.disabled)

\* C8: when update inserts a changelog row for a change, the field of the
\* key held the old value before the call and holds the new value after
\* (stated for a store of the current schema).
C8_EntriesAreTransitions ==
    [][( /\ pc = "applying"
         /\ inv.cmd = "update"
         /\ inv.start.layout = "current"
         /\ Len(txn') = Len(txn) + 1 ) =>
          LET change == inv.changes_to_apply[inv.idx]
          IN  /\ RemoteField(remote, change.key_hash, change.change_type)
                    = change.old_value
              /\ RemoteField(remote', change.key_hash, change.change_type)
                    = change.new_value]_vars

\* C9: provision and update on a store that has the legacy tables and no
\* schema marker, or a marker below the current version, issue no create
\* or update call, so the service is left as it was.
C9_SchemaCheckedFirst ==
    (inv.cmd \in {"provision", "update"}
        /\ inv.start.layout \in {"legacy", "v1"}) =>
        /\ \A j \in DOMAIN inv.calls : inv.calls[j].op \notin {"create", "update"}
        /\ remote = inv.start.remote

\* A target row no float() or flag reading accepts.
MalformedTargets(limits) ==
    \E i \in DOMAIN limits.rows :
        \/ /\ limits.rows[i].target_limit \notin {"", "unlimited"}
           /\ float(limits.rows[i].target_limit) = ValueError
        \/ lower(limits.rows[i].target_disabled) \notin {"", "true", "false"}

\* C10: with a malformed roster or target file, check, provision and
\* update issue no remote call at all.
C10_ValidationBeforeRemote ==
    (inv.cmd \in {"check", "provision", "update"}
        /\ \/ load_roster(rosterFile).err # NoError
           \/ MalformedTargets(inv.start.limits)) =>
        inv.calls = <<>>

\* The update invocation has computed its change list.
DiffDone ==
    /\ inv.cmd = "update"
    /\ pc = "applying" \/ (pc = "idle" /\ inv.exitCode = 0)

\* The matched pairs the invocation started from.
StartMatched == map_keys_to_roster(inv.start.remote, load_roster(rosterFile).roster).matched

\* The changes of the kind the invocation computed for the email.
ChangesOf(email, change_type) ==
    {j \in DOMAIN inv.changes_to_apply :
        /\ inv.changes_to_apply[j].email = email
        /\ inv.changes_to_apply[j].change_type = change_type}

\* The rows of the target file the invocation read that are of a matched
\* key.
MatchedRows ==
    {r \in DOMAIN inv.start.limits.rows :
        InEmailToKey(StartMatched, inv.start.limits.rows[r].email)}

\* The ways to attribute the computed changes to the rows of the target
\* file they were computed from: a change is of a row of its email, the
\* changes follow the order of the rows, and a row gives at most a limit
\* change and then a disabled change.
RowMaps ==
    {f \in [DOMAIN inv.changes_to_apply -> DOMAIN inv.start.limits.rows] :
        /\ \A j \in DOMAIN f :
              inv.start.limits.rows[f[j]].email = inv.changes_to_apply[j].email
        /\ \A i, j \in DOMAIN f :
              i < j =>
                /\ f[i] <= f[j]
                /\ f[i] = f[j] =>
                      /\ inv.changes_to_apply[i].change_type = "limit"
                      /\ inv.changes_to_apply[j].change_type = "disabled"}

\* The changes of the kind attributed to the row.
ChangesOfRow(f, r, change_type) ==
    {j \in DOMAIN f : f[j] = r /\ inv.changes_to_apply[j].change_type = change_type}

C18_BlankLimitKeepsActual ==
    DiffDone =>
        \A r \in MatchedRows :
            inv.start.limits.rows[r].target_limit = "" =>
                ChangesOf(inv.start.limits.rows[r].email, "limit") = {}

\* C19: for a matched key whose row leaves target_disabled blank, update
\* computes no disabled change, whether the key is enabled or disabled.
C19_BlankFlagKeepsActual ==
    DiffDone =>
        \A r \in MatchedRows :
            inv.start.limits.rows[r].target_disabled = "" =>
                ChangesOf(inv.start.limits.rows[r].email, "disabled") = {}

\* The flag a target_disabled cell stands for.
CellFlag(cell) == lower(cell) = "true"

\* The key of the listing that is matched to the email.
KeyOfEmail(keys, email) ==
    email_to_key(map_keys_to_roster(keys, load_roster(rosterFile).roster).matched, email)

\* C20: when the target file is rewritten, a row of an email whose old row
\* had a target_limit (a number or unlimited) or a target_disabled keeps
\* that target, and a target that was blank becomes the actual value of
\* the key.
C20_RefreshKeepsTargets ==
    [][limitsFile.exists /\ limitsFile' # limitsFile =>
        \A n \in DOMAIN limitsFile'.rows :
            LET new == limitsFile'.rows[n]
            IN  HasTargets(limitsFile, new.email) =>
                  LET old == load_limits(limitsFile, new.email)
                  IN  /\ CellLimit(new.target_limit) =
                            IF old.target_limit # ""
                            THEN CellLimit(old.target_limit)
                            ELSE KeyOfEmail(remote', new.email).limit
                      /\ CellFlag(new.target_disabled) =
                            IF old.target_disabled # ""
                            THEN CellFlag(old.target_disabled)
                            ELSE KeyOfEmail(remote', new.email).disabled]_vars

\* C21: an update that follows a provision or refresh-limits-file run
\* which wrote the target file where none existed computes no change,
\* whatever the actual limits and flags of the keys are.
C21_FirstPassIsBaseline ==
    ( /\ pc = "idle"
      /\ inv.cmd = "update"
      /\ prev.cmd \in {"provision", "refresh-limits-file"}
      /\ prev.exitCode = 0
      /\ ~prev.start.limits.exists
      /\ inv.start.limits.exists ) => NoChange

\* The invocation is an update that got its listing and loaded its
\* roster, on a store of the current schema.
UpdateFetched ==
    /\ inv.cmd = "update"
    /\ inv.start.layout = "current"
    /\ inv.calls # <<>>
    /\ inv.calls[1] = ListCall(TRUE)
    /\ load_roster(rosterFile).err = NoError

\* The target file the update read has a row of an email without matched
\* key, and no row of a matched key is malformed.
HasUnknownRow(matched) ==
    /\ \E r \in DOMAIN inv.start.limits.rows :
          ~InEmailToKey(matched, inv.start.limits.rows[r].email)
    /\ \A r \in DOMAIN inv.start.limits.rows :
          InEmailToKey(matched, inv.start.limits.rows[r].email) =>
              RowTargetLimit(inv.start.limits.rows[r]) # ValueError

ReadUnknownRow == UpdateFetched /\ HasUnknownRow(StartMatched)

\* C22: a row of the target file whose email has no matched key does not
\* end the update (no exit with an error after the fetch and before the
\* first update call) and gives no change; the rows of matched keys before and
\* after it get their changes, and a run without failing call leaves every
\* matched key at the targets of its row.
C22_UnknownRowSkipped ==
    UpdateFetched =>
      \A matched \in {StartMatched} :
      HasUnknownRow(matched) =>
        /\ ~(pc = "idle" /\ inv.exitCode = 1 /\ Len(inv.calls) = 1)
        /\ \A j \in DOMAIN inv.changes_to_apply :
              InEmailToKey(matched, inv.changes_to_apply[j].email)
        /\ \A r \in {x \in DOMAIN inv.start.limits.rows :
                        InEmailToKey(matched, inv.start.limits.rows[x].email)} :
              LET row == inv.start.limits.rows[r]
                  key == email_to_key(matched, row.email)
              IN  /\ (ChangesOf(row.email, "limit") # {})
                        <=> (RowTargetLimit(row) # key.limit)
                  /\ (ChangesOf(row.email, "disabled") # {})
                        <=> (RowTargetDisabled(row) # key.disabled)
                  /\ (pc = "idle" /\ inv.exitCode = 0 /\ ~inv.dry_run) =>
                        /\ KeyOfEmail(remote, row.email).limit = RowTargetLimit(row)
                        /\ KeyOfEmail(remote, row.email).disabled = RowTargetDisabled(row)

\* The row of c@mq, whose target_limit is no number, was skipped and the
\* two changes of the row after it were applied.
C22_Witness ==
    /\ ReadUnknownRow
    /\ pc = "idle"
    /\ inv.exitCode = 0
    /\ ~inv.dry_run
    /\ inv.start.limits.rows[2].email = "c@mq"
    /\ inv.start.limits.rows[2].target_limit = "abc"
    /\ Len(inv.changes_to_apply) = 2
    /\ KeyOfEmail(remote, "b@mq").limit = Num(5)
    /\ KeyOfEmail(remote, "b@mq").disabled

\* The invocation is a check, provision or update that has ended with
\* status 0 after it fetched the listing and matched it to the roster.
Reconciled ==
    /\ pc = "idle"
    /\ inv.cmd \in {"check", "provision", "update"}
    /\ inv.exitCode = 0
    /\ inv.calls # <<>>
    /\ inv.calls[1] = ListCall(TRUE)

\* C23: usage rows are only appended, and a check, provision or update
\* that fetched and matched the listing has appended a usage row for
\* every matched key of the listing.
C23_UsageEveryFetch ==
    [][/\ IsPrefix(store.usage, store'.usage)
       /\ Reconciled' =>
            \A i \in DOMAIN map_keys_to_roster(remote', load_roster(rosterFile').roster).matched :
                \E u \in (inv'.start.usage + 1)..Len(store'.usage) :
                    store'.usage[u].key_hash =
                        map_keys_to_roster(remote', load_roster(rosterFile').roster).matched[i].key.hash]_vars

\* C25: init-db on a store of the current schema version ends with status
\* 0 and leaves the store as it was; on a store with the legacy tables and
\* no marker, or with a marker below the current version, it ends with
\* status 1 and leaves the store as it was.
C25_InitDbKeepsStore ==
    [][(pc = "idle" /\ runs' = runs + 1 /\ inv'.cmd = "init-db") =>
        /\ store.layout = "current" => (store' = store /\ inv'.exitCode = 0)
        /\ store.layout \in {"legacy", "v1"} => (store' = store /\ inv'.exitCode = 1)]_vars

\* A second init-db ran on the store the first had created and a check had
\* filled, and left its rows.
C25_Witness ==
    /\ pc = "idle"
    /\ inv.cmd = "init-db"
    /\ inv.exitCode = 0
    /\ inv.start.layout = "current"
    /\ store.student # {}
    /\ store.usage # <<>>

\* C27: every key in a file the invocation wrote is a key of the listing,
\* and the invocation fetched the listing.
C27_OutputKeysAreListed ==
    \A e \in DOMAIN exports :
        exports[e].at = inv.timestamp =>
            \A r \in DOMAIN exports[e].rows :
                /\ \E j \in DOMAIN inv.calls : inv.calls[j] = ListCall(TRUE)
                /\ \E k \in DOMAIN remote : remote[k].hash = exports[e].rows[r].hash

\* C28: an update or provision with --dry-run issues no create or update
\* call, leaves the service as it was and adds no changelog row, committed
\* or not.
C28_DryRunChangesNothing ==
    (inv.cmd \in {"update", "provision"} /\ inv.dry_run) =>
        /\ \A j \in DOMAIN inv.calls : inv.calls[j].op \notin {"create", "update"}
        /\ remote = inv.start.remote
        /\ Len(store.changelog) = inv.start.changelog
        /\ txn = <<>>
        /\ pc = "idle"

\* An update with --dry-run had four changes planned and ended.
C28_Witness ==
    /\ pc = "idle"
    /\ inv.cmd = "update"
    /\ inv.dry_run
    /\ inv.exitCode = 0
    /\ Len(inv.changes_to_apply) = 4
    /\ Len(inv.calls) = 1

\* The update calls the invocation has issued.
UpdateCalls == SelectSeq(inv.calls, LAMBDA c : c.op = "update")

\* C29: the change list of update is in the order of the rows of the
\* target file, the limit change of a row before its disabled change; the
\* k-th update call is the call of the k-th change, and when it is issued
\* every earlier call has succeeded and its changelog row is inserted.
C29_CallsInChangeOrder ==
    [][inv.cmd = "update" =>
        /\ RowMaps # {}
        /\ \A k \in DOMAIN UpdateCalls :
              /\ k <= Len(inv.changes_to_apply)
              /\ UpdateCalls[k].key_hash = inv.changes_to_apply[k].key_hash
              /\ UpdateCalls[k].payload = ChangePayload(inv.changes_to_apply[k])
        /\ Len(inv'.calls) = Len(inv.calls) + 1 /\ Last(inv'.calls).op = "update" =>
              /\ Len(UpdateCalls) = inv.idx - 1
              /\ \A k \in DOMAIN UpdateCalls : UpdateCalls[k].ok
              /\ Len(txn) = inv.idx - 1
              /\ \A k \in DOMAIN txn : EntryRecords(txn[k], inv.changes_to_apply[k])]_vars

\* All four changes of a list, a limit and a disabled change for each of
\* two keys, have been called for.
C29_Witness ==
    /\ inv.cmd = "update"
    /\ Len(inv.changes_to_apply) = 4
    /\ Len(UpdateCalls) = 4
    /\ inv.changes_to_apply[1].email = inv.changes_to_apply[2].email
    /\ inv.changes_to_apply[3].email = inv.changes_to_apply[4].email
    /\ inv.changes_to_apply[1].email # inv.changes_to_apply[3].email

\* A student of the roster needs a key and has no budget.
NeedsKeyWithoutBudget ==
    \E loaded \in {load_roster(rosterFile)} :
        /\ loaded.err = NoError
        /\ \E matched \in {map_keys_to_roster(remote, loaded.roster).matched} :
           \E i \in DOMAIN loaded.roster :
              /\ loaded.roster[i].info.budget = None
              /\ \A m \in DOMAIN matched : matched[m].email # loaded.roster[i].email
              /\ ~IsPlaceholder(loaded.roster[i].email)

\* C32: a provision without --limit that has fetched the listing and finds
\* a student who needs a key and has no budget ends with an error, without
\* a create call and without a new key.
C32_NoBudgetNoCreate ==
    [][(/\ pc = "idle"
        /\ inv'.cmd = "provision"
        /\ store.layout # "absent"
        /\ NeedsKeyWithoutBudget
        /\ \E dry \in BOOLEAN : ProvisionStart(dry, None, TRUE)) =>
            /\ pc' = "idle"
            /\ inv'.exitCode = 1
            /\ \A k \in DOMAIN inv'.calls : inv'.calls[k].op # "create"
            /\ remote' = remote]_vars

\* A provision on the roster of StudentA and a student without budget,
\* neither of whom has a key, ended with an error after the listing.
C32_Witness ==
    /\ inv.cmd = "provision"
    /\ pc = "idle"
    /\ inv.exitCode = 1
    /\ inv.calls = <<ListCall(TRUE)>>
    /\ inv.start.remote = <<>>
    /\ remote = <<>>
    /\ rosterFile = <<StudentA, StudentNoBudget>>

\* C33: a provision that follows a provision that completed successfully,
\* on the same valid roster, issues no create call.
C33_ProvisionIdempotent ==
    (/\ inv.cmd = "provision"
     /\ prev.cmd = "provision"
     /\ ~prev.dry_run
     /\ prev.exitCode = 0
     /\ load_roster(rosterFile).err = NoError) =>
        \A k \in DOMAIN inv.calls : inv.calls[k].op # "create"

\* C34: when a provision run has ended, every key it created has a row,
\* with its secret, in the api_keys file the run wrote, also when a later
\* create call of the run failed.
C34_CreatedKeysExported ==
    (inv.cmd = "provision" /\ pc = "idle" /\ inv.exitCode \in {0, 1}) =>
        \A j \in DOMAIN inv.created_keys :
            \E e \in DOMAIN exports :
                /\ exports[e].kind = "api_keys"
                /\ exports[e].at = inv.timestamp
                /\ \E r \in DOMAIN exports[e].rows :
                      exports[e].rows[r].hash = inv.created_keys[j].hash

\* The rows of the target file the invocation read for the email.
RowsOfEmail(email) ==
    {r \in DOMAIN inv.start.limits.rows : inv.start.limits.rows[r].email = email}

\* The changes of the kind the invocation computed for the key.
ChangesOfKey(key_hash, change_type) ==
    {j \in DOMAIN inv.changes_to_apply :
        /\ inv.changes_to_apply[j].key_hash = key_hash
        /\ inv.changes_to_apply[j].change_type = change_type}

\* C35: every matched key is diffed against the targets of its student,
\* also when a student has two matched keys: when the rows of the student
\* set one target_limit (target_disabled), each of the student's keys has
\* a limit (disabled) change to that target exactly when its actual value
\* differs from it.
C35_EveryMatchedKeyDiffed ==
    DiffDone =>
        \A matched \in {StartMatched} :
        \A m \in DOMAIN matched :
        \A r \in RowsOfEmail(matched[m].email) :
            LET row == inv.start.limits.rows[r]
                key == matched[m].key
                same_limit ==
                    /\ row.target_limit # ""
                    /\ \A q \in RowsOfEmail(row.email) :
                          inv.start.limits.rows[q].target_limit # ""
                            /\ CellLimit(inv.start.limits.rows[q].target_limit)
                                  = CellLimit(row.target_limit)
                same_flag ==
                    /\ row.target_disabled # ""
                    /\ \A q \in RowsOfEmail(row.email) :
                          inv.start.limits.rows[q].target_disabled # ""
                            /\ CellFlag(inv.start.limits.rows[q].target_disabled)
                                  = CellFlag(row.target_disabled)
            IN  /\ same_limit =>
                    /\ (CellLimit(row.target_limit) # key.limit)
                          <=> (ChangesOfKey(key.hash, "limit") # {})
                    /\ \A j \in ChangesOfKey(key.hash, "limit") :
                          inv.changes_to_apply[j].new_value = CellLimit(row.target_limit)
                /\ same_flag =>
                    /\ (CellFlag(row.target_disabled) # key.disabled)
                          <=> (ChangesOfKey(key.hash, "disabled") # {})
                    /\ \A j \in ChangesOfKey(key.hash, "disabled") :
                          inv.changes_to_apply[j].new_value
                            = Bool(CellFlag(row.target_disabled))

\* C37: an update or provision with --dry-run leaves the target file, the
\* snapshot and api_keys files and the store as they were, with or without
\* changes or keys to provision.
C37_DryRunWritesNothing ==
    [][(runs' # runs /\ inv'.cmd \in {"update", "provision"} /\ inv'.dry_run) =>
          /\ limitsFile' = limitsFile
          /\ exports' = exports
          /\ store' = store]_vars

(***************************************************************************)
(* Properties of the direct calls.                                         *)
(***************************************************************************)
Returned(fn) == call.fn = fn /\ result # NoResult

\* The keys of a matched list.
MatchedKeys(matched) == [j \in DOMAIN matched |-> matched[j].key]

\* sub takes keys of the listing in the order of the listing (a key's hash
\* is its position in the listing).
KeepsOrder(sub, keys) ==
    /\ \A j \in DOMAIN sub : sub[j].hash \in DOMAIN keys /\ keys[sub[j].hash] = sub[j]
    /\ \A j \in 1..(Len(sub) - 1) : sub[j].hash < sub[j + 1].hash

\* C11: map_keys_to_roster puts every key of the listing in exactly one of
\* matched and orphaned, the sizes add up to the size of the listing, and
\* each list keeps the order of the listing.
C11_MatchPartitions ==
    Returned("map_keys_to_roster") =>
        /\ Len(result.matched) + Len(result.orphaned) = Len(call.openrouter_keys)
        /\ \A i \in DOMAIN call.openrouter_keys :
              (\E j \in DOMAIN result.matched :
                    result.matched[j].key = call.openrouter_keys[i])
                 # (\E j \in DOMAIN result.orphaned :
                    result.orphaned[j] = call.openrouter_keys[i])
        /\ KeepsOrder(MatchedKeys(result.matched), call.openrouter_keys)
        /\ KeepsOrder(result.orphaned, call.openrouter_keys)

\* A listing of three keys was split into both lists.
C11_Witness ==
    /\ Returned("map_keys_to_roster")
    /\ Len(call.openrouter_keys) = 3
    /\ Len(result.matched) = 2
    /\ Len(result.orphaned) = 1

\* The identifier the label of the key decodes to is one of the roster.
IdInRoster(key, roster) ==
    /\ parse_key_name(key.name).mq_id # None
    /\ \E r \in DOMAIN roster :
          roster[r].info.mq_id = parse_key_name(key.name).mq_id.s

\* C12: a key is matched exactly when its label decodes to the identifier
\* of a roster student, and it is paired with the email and record of a
\* student of that identifier; every other key is orphaned.
C12_MatchedByIdentifier ==
    Returned("map_keys_to_roster") =>
        /\ \A i \in DOMAIN call.openrouter_keys :
              (\E j \in DOMAIN result.matched :
                    result.matched[j].key = call.openrouter_keys[i])
                 <=> IdInRoster(call.openrouter_keys[i], call.roster)
        /\ \A i \in DOMAIN call.openrouter_keys :
              (\E j \in DOMAIN result.orphaned :
                    result.orphaned[j] = call.openrouter_keys[i])
                 <=> ~IdInRoster(call.openrouter_keys[i], call.roster)
        /\ \A j \in DOMAIN result.matched :
              /\ result.matched[j].info.mq_id
                    = parse_key_name(result.matched[j].key.name).mq_id.s
              /\ \E r \in DOMAIN call.roster :
                    /\ call.roster[r].email = result.matched[j].email
                    /\ call.roster[r].info = result.matched[j].info

\* The keys of two students who share a last name went to their two
\* emails, and a key with the name of a student and an unknown identifier
\* was orphaned.
C12_Witness ==
    /\ Returned("map_keys_to_roster")
    /\ Len(call.roster) = 2
    /\ \E j, k \in DOMAIN result.matched :
          /\ result.matched[j].email = "a@mq"
          /\ result.matched[k].email = "b@mq"
          /\ result.matched[j].info.last_name = result.matched[k].info.last_name
    /\ \E j \in DOMAIN result.orphaned :
          /\ parse_key_name(result.orphaned[j].name).name = display_name(InfoA)
          /\ parse_key_name(result.orphaned[j].name).mq_id = Str(<<"9">>)

\* Two rows of the file have different emails and, after trimming, the
\* same mq_id.
SharedIdentifier(rows) ==
    \E i, j \in DOMAIN rows :
        /\ i # j
        /\ RowEmail(rows[i]) # RowEmail(rows[j])
        /\ strip(rows[i].mq_id) = strip(rows[j].mq_id)

\* C13: load_roster fails on a file in which two records carry the same
\* identifier, and never returns a mapping in which two emails share one.
C13_IdentifierUnique ==
    Returned("load_roster") =>
        /\ SharedIdentifier(call.rows) => result.err # NoError
        /\ result.err = NoError =>
              \A i, j \in DOMAIN result.roster :
                  i # j => result.roster[i].info.mq_id # result.roster[j].info.mq_id

\* The label was built and parsed back.
Decoded == call.fn = "build_key_name" /\ result # NoResult /\ result.parsed # NoResult

\* C14: parse_key_name of the label build_key_name makes for a valid student
\* and a date is (date, display_name, mq_id).
C14_CodecInverse ==
    Decoded =>
        result.parsed = [date |-> Str(call.date),
                         name |-> display_name(call.student_info),
                         mq_id |-> Str(call.student_info.mq_id)]

\* The mapping as a set of (email, record): dict equality ignores order.
AsMapping(roster) == {roster[i] : i \in DOMAIN roster}

\* The file was written and loaded back.
LoadedBack == call.fn = "save_roster" /\ result # NoResult /\ result.loaded # NoResult

\* C15: load_roster of the file save_roster wrote for a mapping of valid
\* students returns the mapping, field for field.
C15_RosterRoundTrip ==
    LoadedBack =>
        /\ result.loaded.err = NoError
        /\ AsMapping(result.loaded.roster) = AsMapping(call.roster_dict)

\* The required fields of the row that are empty after trimming.
BlankFields(row) ==
    {f \in {"first_name", "last_name", "mq_id"} : strip(row[f]) = <<>>}

FirstBlankField(row) ==
    CASE "first_name" \in BlankFields(row) -> "first_name"
      [] "last_name" \in BlankFields(row) -> "last_name"
      [] OTHER -> "mq_id"

\* Record k is the first of the file that load_roster cannot take, and it
\* has a blank required field.
FirstBadRecord(rows, k) ==
    /\ k \in DOMAIN rows
    /\ BlankFields(rows[k]) # {}
    /\ \A i \in 1..(k - 1) :
          /\ BlankFields(rows[i]) = {}
          /\ "email" \in DOMAIN rows[i]
          /\ lower(rows[i].limit_reset) \in VALID_LIMIT_RESETS \cup {""}
          /\ rows[i].budget = "" \/ float(rows[i].budget) # ValueError

\* C16 as claimed: the error names the field, the record position k and
\* the email.
C16_ErrorNamesRecordPosition ==
    Returned("load_roster") =>
        \A k \in DOMAIN call.rows :
            FirstBadRecord(call.rows, k) =>
                /\ result.err = [t |-> "ClickException",
                                 field |-> FirstBlankField(call.rows[k]),
                                 line |-> k,
                                 email |-> RowEmail(call.rows[k])]
                /\ result.roster = <<>>

\* C16 as amended: load_roster rejects a file whose record k has a blank
\* required field, and the error names the first such field, the line
\* k + 1 of the record in the file (the header is line 1) and the email of
\* the record, or '?'; no mapping is returned.
C16_ErrorNamesFileLine ==
    Returned("load_roster") =>
        \A k \in DOMAIN call.rows :
            FirstBadRecord(call.rows, k) =>
                /\ result.err = [t |-> "ClickException",
                                 field |-> FirstBlankField(call.rows[k]),
                                 line |-> k + 1,
                                 email |-> RowEmail(call.rows[k])]
                /\ result.roster = <<>>

\* The second record of a file has a whitespace-only first name and was
\* rejected as line 3.
C16_Witness ==
    /\ Returned("load_roster")
    /\ Len(call.rows) = 2
    /\ FirstBadRecord(call.rows, 2)
    /\ strip(call.rows[2].first_name) = <<>> /\ call.rows[2].first_name # <<>>
    /\ result.err.t = "ClickException"
    /\ result.err.line = 3

\* The matched pairs of refresh k of the call.
MatchedAt(k) ==
    map_keys_to_roster(call.steps[k].openrouter_keys, call.steps[k].roster).matched

\* The refreshes so far that completed with a key matched to the email.
RefreshesOf(email) ==
    {k \in 1..result.done :
        /\ result.errs[k] = NoError
        /\ \E m \in DOMAIN MatchedAt(k) : MatchedAt(k)[m].email = email}

SetMin(S) == CHOOSE x \in S : \A y \in S : x <= y

\* The record of the email in the roster of refresh k.
RosterInfo(k, email) ==
    call.steps[k].roster[CHOOSE e \in DOMAIN call.steps[k].roster :
                            call.steps[k].roster[e].email = email].info

\* The student row holds the name and identifier of the record.
RowHolds(row, info) ==
    /\ row.first_name = info.first_name
    /\ row.last_name = info.last_name
    /\ row.mq_id = info.mq_id

\* Every student row has the timestamp of the first refresh that inserted
\* its email, and no refresh removed a row.
CreatedAtKept ==
    /\ \A row \in result.store.student :
          /\ RefreshesOf(row.email) # {}
          /\ row.created_at = SetMin(RefreshesOf(row.email))
    /\ \A old \in result.before.student :
          \E row \in result.store.student : row.email = old.email

\* C24 as stated: after any sequence of refreshes, a student row has the
\* timestamp of the refresh that first inserted its email and the name
\* and identifier its email has in the roster of the most recent refresh;
\* no refresh removed a row.
C24_StudentRowFollowsRoster ==
    Returned("update_database") =>
        /\ CreatedAtKept
        /\ \A row \in result.store.student :
              \A e \in DOMAIN call.steps[result.done].roster :
                  call.steps[result.done].roster[e].email = row.email =>
                      RowHolds(row, call.steps[result.done].roster[e].info)

\* C24, amended: after any sequence of refreshes, a student row has the
\* timestamp of the refresh that first inserted its email and the name
\* and identifier its email had in the roster of the most recent refresh
\* that completed with a key matched to that email; no refresh removed a
\* row.
C24_StudentRowFollowsUpsert ==
    Returned("update_database") =>
        /\ CreatedAtKept
        /\ \A row \in result.store.student :
              RowHolds(row, RosterInfo(SetMax(RefreshesOf(row.email)), row.email))

\* The second refresh corrected the first name of a student the first had
\* inserted, and the row kept the timestamp of the first.
C24_Witness ==
    /\ Returned("update_database")
    /\ result.done = 2
    /\ \E row \in result.store.student :
          /\ row.email = "a@mq"
          /\ row.created_at = 1
          /\ row.first_name = <<"C">>
          /\ \E old \in result.before.student :
                old.email = "a@mq" /\ old.first_name = <<"A">>

\* The pair of the matched set of refresh k that the key or usage row is of.
IsOfMatched(k, key_hash) ==
    \E m \in DOMAIN MatchedAt(k) : MatchedAt(k)[m].key.hash = key_hash

C30_FirstDuplicateWins ==
    Returned("map_keys_to_roster") =>
        \A i, j \in DOMAIN call.roster :
            (i < j /\ call.roster[i].info.mq_id = call.roster[j].info.mq_id) =>
                \A k \in DOMAIN call.openrouter_keys :
                    parse_key_name(call.openrouter_keys[k].name).mq_id
                            = Str(call.roster[i].info.mq_id) =>
                        /\ Cardinality({m \in DOMAIN result.matched :
                                result.matched[m].key = call.openrouter_keys[k]}) = 1
                        /\ \A m \in DOMAIN result.matched :
                              result.matched[m].key = call.openrouter_keys[k] =>
                                  result.matched[m].email = call.roster[i].email

\* ^(\d{8})_(.+)_(\w+)$ : the label is a date, a name and an identifier.
IsDateNameId(label, date, name, mq_id) ==
    /\ label = date \o <<"_">> \o name \o <<"_">> \o mq_id
    /\ Len(date) = 8 /\ \A i \in DOMAIN date : IsDigit(date[i])
    /\ name # <<>>
    /\ mq_id # <<>> /\ \A i \in DOMAIN mq_id : IsWord(mq_id[i])

\* The ways to cut the label into a date, a name and an identifier.
DateNameIds(label) ==
    {cut \in {[date |-> SubSeq(label, 1, 8),
               name |-> SubSeq(label, 10, p - 1),
               mq_id |-> SubSeq(label, p + 1, Len(label))] : p \in 10..Len(label)} :
        IsDateNameId(label, cut.date, cut.name, cut.mq_id)}

\* ^(\d{8})_(.+)$ : the label is a date and a name.
IsDateName(label) ==
    /\ Len(label) >= 10
    /\ \A i \in 1..8 : IsDigit(label[i])
    /\ label[9] = "_"

\* parse_key_name returned for a label.
ParsedLabel == call.fn = "parse_key_name" /\ result # NoResult

\* The three patterns are tried in their order.
PatternsInOrder ==
    ParsedLabel =>
        IF DateNameIds(call.key_name) # {}
        THEN \E cut \in DateNameIds(call.key_name) :
                result = [date |-> Str(cut.date), name |-> cut.name,
                          mq_id |-> Str(cut.mq_id)]
        ELSE IF IsDateName(call.key_name)
        THEN result = [date |-> Str(SubSeq(call.key_name, 1, 8)),
                       name |-> SubSeq(call.key_name, 10, Len(call.key_name)),
                       mq_id |-> None]
        ELSE result = [date |-> None, name |-> call.key_name, mq_id |-> None]

\* The label is a date and one of the names, and nothing else.
BuiltFromDateAndName ==
    \E name \in ParseNames : call.key_name = Today \o <<"_">> \o name

\* C31: parse_key_name tries date_name_id, then date_name, then returns the
\* whole label as the name (the empty label gives (None, "", None)); a label
\* built from a date and a name only never decodes to an identifier.
C31_DecodeByPatternOrder ==
    /\ PatternsInOrder
    /\ ParsedLabel /\ call.key_name = <<>> =>
          result = [date |-> None, name |-> <<>>, mq_id |-> None]
    /\ ParsedLabel /\ BuiltFromDateAndName => result.mq_id = None

\* No two students of the roster have the same identifier.
UniqueIdentifiers(roster) ==
    \A i, j \in DOMAIN roster : i # j => roster[i].info.mq_id # roster[j].info.mq_id

\* C36: in a sequence of refreshes over rosters with unique identifiers,
\* every refresh completes without error and leaves a student row for each
\* matched email, also when an identifier moved to another email.
C36_RefreshNeverRaises ==
    (/\ call.fn = "update_database"
     /\ result # NoResult
     /\ \A k \in 1..result.done : UniqueIdentifiers(call.steps[k].roster)) =>
        /\ result.errs[result.done] = NoError
        /\ \A m \in DOMAIN MatchedAt(result.done) :
              \E row \in result.store.student :
                  row.email = MatchedAt(result.done)[m].email

====
